---- MODULE Spec2Model ----
(***************************************************************************)
(* Model of the web3_auth verification protocol: credential extraction,    *)
(* the remote eth_call, the response scraping and the final comparison.    *)
(* Two variants of the repository are modelled side by side:               *)
(*   "fixed"   = src/web3_auth_fixed.c        (structured digest header)   *)
(*   "working" = src/web3_auth_from_working.c (raw key="value" string)     *)
(* A C string is a sequence of bytes 1..255 (the terminating NUL is        *)
(* implicit); a buffer that may hold NUL bytes is read through CStr.       *)
(***************************************************************************)
EXTENDS Integers, Sequences, FiniteSets, TLC

(* ------------------------------------------------------------------ *)
(* Program constants                                                  *)
(* ------------------------------------------------------------------ *)
MAX_AUTH_HEADER_SIZE == 2048
MAX_FIELD_SIZE == 256
\* strlen(hex_result) < 66 in strip_trailing_zeros
MinResultLen == 66
\* size_t copy_len = 32 in strip_trailing_zeros
CopyLen == 32
\* char expected_response[64] in the verification function
ExpectedResponseSize == 64

(* ------------------------------------------------------------------ *)
(* Bounds of the model                                                *)
(* ------------------------------------------------------------------ *)
\* the transport hands a body to the write callback in at most this many chunks
MaxChunks == 2

(* ------------------------------------------------------------------ *)
(* Byte strings                                                       *)
(* ------------------------------------------------------------------ *)
Rep(b, n) == [i \in 1..n |-> b]

SetMin(S) == CHOOSE x \in S : \A y \in S : x <= y

\* the C string held by a buffer: the bytes before the first NUL
CStr(buf) ==
    LET nul == {i \in 1..Len(buf) : buf[i] = 0}
    IN  IF nul = {} THEN buf ELSE SubSeq(buf, 1, SetMin(nul) - 1)

\* strstr(h, n): 1-based index of the first occurrence of n in h, 0 for NULL
StrStr(h, n) ==
    LET idx == {i \in 1..(Len(h) - Len(n) + 1) : SubSeq(h, i, i + Len(n) - 1) = n}
    IN  IF idx = {} THEN 0 ELSE SetMin(idx)

\* strchr(h + from - 1, c): 1-based index of the first c at or after from, 0 for NULL
StrChr(h, from, c) ==
    LET idx == {i \in from..Len(h) : h[i] = c}
    IN  IF idx = {} THEN 0 ELSE SetMin(idx)

\* "error" (with its quotes), the key looked for in the response body
ErrorKey == <<34, 101, 114, 114, 111, 114, 34>>
\* User not found
UserNotFoundMarker == <<85, 115, 101, 114, 32, 110, 111, 116, 32, 102, 111, 117, 110, 100>>
\* "result":"
ResultPattern == <<34, 114, 101, 115, 117, 108, 116, 34, 58, 34>>
\* REGISTER
REGISTER == <<82, 69, 71, 73, 83, 84, 69, 82>>

(* ------------------------------------------------------------------ *)
(* Keccak-256                                                         *)
(* ------------------------------------------------------------------ *)
\* A uint64_t is a sequence of 64 bits, the least significant first; the
\* state is uint64_t state[25], state[i] of the code being element i + 1.
\* state_bytes aliases the state byte by byte on a little-endian machine:
\* byte i is bits 8 * (i % 8) .. 8 * (i % 8) + 7 of state[i / 8].
KECCAK_ROUNDS == 24
\* size_t rate = 136
KeccakRate == 136

\* the 24 round constants, each as its 16 hexadecimal digits
keccak_round_constants ==
    <<
      <<0, 0, 0, 0, 0, 0, 0, 0, 0, 0, 0, 0, 0, 0, 0, 1>>,
      <<0, 0, 0, 0, 0, 0, 0, 0, 0, 0, 0, 0, 8, 0, 8, 2>>,
      <<8, 0, 0, 0, 0, 0, 0, 0, 0, 0, 0, 0, 8, 0, 8, 10>>,
      <<8, 0, 0, 0, 0, 0, 0, 0, 8, 0, 0, 0, 8, 0, 0, 0>>,
      <<0, 0, 0, 0, 0, 0, 0, 0, 0, 0, 0, 0, 8, 0, 8, 11>>,
      <<0, 0, 0, 0, 0, 0, 0, 0, 8, 0, 0, 0, 0, 0, 0, 1>>,
      <<8, 0, 0, 0, 0, 0, 0, 0, 8, 0, 0, 0, 8, 0, 8, 1>>,
      <<8, 0, 0, 0, 0, 0, 0, 0, 0, 0, 0, 0, 8, 0, 0, 9>>,
      <<0, 0, 0, 0, 0, 0, 0, 0, 0, 0, 0, 0, 0, 0, 8, 10>>,
      <<0, 0, 0, 0, 0, 0, 0, 0, 0, 0, 0, 0, 0, 0, 8, 8>>,
      <<0, 0, 0, 0, 0, 0, 0, 0, 8, 0, 0, 0, 8, 0, 0, 9>>,
      <<0, 0, 0, 0, 0, 0, 0, 0, 8, 0, 0, 0, 0, 0, 0, 10>>,
      <<0, 0, 0, 0, 0, 0, 0, 0, 8, 0, 0, 0, 8, 0, 8, 11>>,
      <<8, 0, 0, 0, 0, 0, 0, 0, 0, 0, 0, 0, 0, 0, 8, 11>>,
      <<8, 0, 0, 0, 0, 0, 0, 0, 0, 0, 0, 0, 8, 0, 8, 9>>,
      <<8, 0, 0, 0, 0, 0, 0, 0, 0, 0, 0, 0, 8, 0, 0, 3>>,
      <<8, 0, 0, 0, 0, 0, 0, 0, 0, 0, 0, 0, 8, 0, 0, 2>>,
      <<8, 0, 0, 0, 0, 0, 0, 0, 0, 0, 0, 0, 0, 0, 8, 0>>,
      <<0, 0, 0, 0, 0, 0, 0, 0, 0, 0, 0, 0, 8, 0, 0, 10>>,
      <<8, 0, 0, 0, 0, 0, 0, 0, 8, 0, 0, 0, 0, 0, 0, 10>>,
      <<8, 0, 0, 0, 0, 0, 0, 0, 8, 0, 0, 0, 8, 0, 8, 1>>,
      <<8, 0, 0, 0, 0, 0, 0, 0, 0, 0, 0, 0, 8, 0, 8, 0>>,
      <<0, 0, 0, 0, 0, 0, 0, 0, 8, 0, 0, 0, 0, 0, 0, 1>>,
      <<8, 0, 0, 0, 0, 0, 0, 0, 8, 0, 0, 0, 8, 0, 0, 8>>
    >>

rho_offsets ==
    <<1, 3, 6, 10, 15, 21, 28, 36, 45, 55, 2, 14, 27, 41, 56, 8, 25, 43, 62, 18, 39, 61, 20, 44>>

pi_offsets ==
    <<10, 7, 11, 17, 18, 3, 5, 16, 8, 21, 24, 4, 15, 23, 19, 13, 12, 2, 20, 14, 22, 9, 6, 1>>

Pow2(n) == IF n = 0 THEN 1 ELSE IF n = 1 THEN 2 ELSE IF n = 2 THEN 4 ELSE IF n = 3 THEN 8
           ELSE IF n = 4 THEN 16 ELSE IF n = 5 THEN 32 ELSE IF n = 6 THEN 64 ELSE 128

\* a sequence given by a rule, as a tuple
Seq64(F(_)) == SubSeq([k \in 1..64 |-> F(k)], 1, 64)

ZeroLane == Seq64(LAMBDA k : 0)

\* the uint64_t written with the given 16 hexadecimal digits
LaneOfHex(digits) == Seq64(LAMBDA k : (digits[16 - ((k - 1) \div 4)] \div Pow2((k - 1) % 4)) % 2)

\* a ^ b
Xor64(a, b) == Seq64(LAMBDA k : (a[k] + b[k]) % 2)

\* a ^ ((~b) & c)
XorNotAnd64(a, b, c) == Seq64(LAMBDA k : (a[k] + (1 - b[k]) * c[k]) % 2)

\* (x << n) | (x >> (64 - n)), for 0 < n < 64
rotl64(x, n) == SubSeq(x, 65 - n, 64) \o SubSeq(x, 1, 64 - n)

\* the Theta step: the column parities C[0..4]
ThetaC(state) ==
    SubSeq([i \in 1..5 |->
              Xor64(Xor64(Xor64(Xor64(state[i], state[i + 5]), state[i + 10]),
                          state[i + 15]), state[i + 20])], 1, 5)

\* D for each column i: C[(i + 4) % 5] ^ rotl64(C[(i + 1) % 5], 1)
ThetaD(C) ==
    SubSeq([n \in 1..5 |-> Xor64(C[((n + 3) % 5) + 1], rotl64(C[(n % 5) + 1], 1))], 1, 5)

\* state[j + i] ^= D for every row j
ThetaApply(state, D) ==
    SubSeq([n \in 1..25 |-> Xor64(state[n], D[((n - 1) % 5) + 1])], 1, 25)

Theta(state) == ThetaApply(state, ThetaD(ThetaC(state)))

\* one iteration of the Rho and Pi loop, i counted from 0: p holds the state
\* and the lane carried over (current)
RhoPiIter_noCarry(p, i) ==
    LET j == pi_offsets[i + 1]
    IN  [state |-> [p.state EXCEPT ![j + 1] = rotl64(p.current, rho_offsets[i + 1])],
         current |-> p.current]
RhoPiIter(p, i) ==
    LET j == pi_offsets[i + 1]
    IN  [state |-> [p.state EXCEPT ![j + 1] = rotl64(p.current, rho_offsets[i + 1])],
         current |-> p.state[j + 1]]

\* the Chi step
Chi(state) ==
    SubSeq([n \in 1..25 |->
              LET j == ((n - 1) \div 5) * 5
                  i == (n - 1) % 5
              IN  XorNotAnd64(state[j + i + 1], state[j + ((i + 1) % 5) + 1],
                              state[j + ((i + 2) % 5) + 1])], 1, 25)

\* the Iota step
Iota(state, round) ==
    [state EXCEPT ![1] = Xor64(state[1], LaneOfHex(keccak_round_constants[round + 1]))]

\* uint64_t state[25] = {0}
ZeroState == SubSeq([n \in 1..25 |-> ZeroLane], 1, 25)

\* bit k (from 1) of the lane n (from 1) of the state whose bytes are the given ones
BitOfBytes(bytes, n, k) ==
    LET b == 8 * (n - 1) + ((k - 1) \div 8) + 1
    IN  IF b <= Len(bytes) THEN (bytes[b] \div Pow2((k - 1) % 8)) % 2 ELSE 0

\* state_bytes[i] ^= bytes[i] for every i below the length of bytes
XorBytes(state, bytes) ==
    SubSeq([n \in 1..25 |-> Seq64(LAMBDA k : (state[n][k] + BitOfBytes(bytes, n, k)) % 2)],
           1, 25)

\* state_bytes[at] ^= val
XorByteAt(state, at, val) == XorBytes(state, [i \in 1..(at + 1) |-> IF i = at + 1 THEN val ELSE 0])

\* state_bytes[i], i from 0
StateByte(state, i) ==
    LET lane == state[(i \div 8) + 1]
        o == 8 * (i % 8)
    IN  lane[o + 1] + 2 * lane[o + 2] + 4 * lane[o + 3] + 8 * lane[o + 4]
        + 16 * lane[o + 5] + 32 * lane[o + 6] + 64 * lane[o + 7] + 128 * lane[o + 8]

\* the final block of keccak256: the remaining input_len bytes from offset on
\* are xored in, then the padding bytes 0x01 and 0x80
PadFinal_noDomainByte(state, input, offset, input_len) ==
    XorByteAt(XorBytes(state, SubSeq(input, offset + 1, offset + input_len)),
              KeccakRate - 1, 128)
PadFinal_sha3(state, input, offset, input_len) ==
    XorByteAt(XorByteAt(XorBytes(state, SubSeq(input, offset + 1, offset + input_len)),
                        input_len, 6),
              KeccakRate - 1, 128)
PadFinal(state, input, offset, input_len) ==
    XorByteAt(XorByteAt(XorBytes(state, SubSeq(input, offset + 1, offset + input_len)),
                        input_len, 1),
              KeccakRate - 1, 128)

\* memcpy(output, state_bytes, 32)
Squeeze(state) == SubSeq([i \in 1..32 |-> StateByte(state, i - 1)], 1, 32)

\* one hexadecimal digit, lower case, as printf writes it
HexDigit(d) == IF d < 10 THEN 48 + d ELSE 87 + d

\* "%02x" of an unsigned char
Hex2(b) == <<HexDigit(b \div 16), HexDigit(b % 16)>>

\* getDigestHash(string,string,string,string,string)
Signature == <<103, 101, 116, 68, 105, 103, 101, 115, 116, 72, 97, 115, 104, 40, 115, 116, 114, 105, 110, 103, 44, 115, 116, 114, 105, 110, 103, 44, 115, 116, 114, 105, 110, 103, 44, 115, 116, 114, 105, 110, 103, 44, 115, 116, 114, 105, 110, 103, 41>>


\* "0x10db70b5": what get_function_selector returns for Signature, "0x" and
\* the first four bytes of its keccak256 in hexadecimal (the hash itself is
\* computed step by step in KeccakSpec, see SelectorIsHashOfSignature)
SignatureSelector == <<48, 120, 49, 48, 100, 98, 55, 48, 98, 53>>

\* snprintf(selector, 11, "0x%02x%02x%02x%02x", hash[0], hash[1], hash[2], hash[3])
get_function_selector(hash) ==
    <<48, 120>> \o Hex2(hash[1]) \o Hex2(hash[2]) \o Hex2(hash[3]) \o Hex2(hash[4])

(* ------------------------------------------------------------------ *)
(* The call data encoder                                              *)
(* ------------------------------------------------------------------ *)
\* size_t offset1 = 0xA0
FirstOffset == 160

\* ((len + 31) / 32) * 32, and 32 for the empty string
PaddedLen_noEmptyRule(len) == ((len + 31) \div 32) * 32
PaddedLen(len) ==
    LET padded_len == ((len + 31) \div 32) * 32
    IN  IF padded_len = 0 THEN 32 ELSE padded_len

\* the bytes of str in hexadecimal, two digits a byte
HexOf(str) ==
    SubSeq([p \in 1..(2 * Len(str)) |->
              IF p % 2 = 1 THEN HexDigit(str[(p + 1) \div 2] \div 16)
              ELSE HexDigit(str[p \div 2] % 16)], 1, 2 * Len(str))

\* "%064lx" of a size_t below 16^8: the low eight digits, zeros before them
Hex64(n) ==
    SubSeq([p \in 1..64 |-> IF p > 56 THEN HexDigit((n \div (16 ^ (64 - p))) % 16) ELSE 48],
           1, 64)

\* the buffer pad_string_data leaves behind, NUL bytes included.
\* web3_auth_fixed.c, web3_auth_standalone.c: the buffer is filled with '0', then sprintf writes every
\* byte as two digits and a NUL, so that a NUL stays behind the last byte.
\* web3_auth_from_working.c: the digits are written first and the rest of the
\* buffer is filled with '0' afterwards.
PaddedBuffer(v, str) ==
    LET len == Len(str)
        padded_len == PaddedLen(len)
        hex == HexOf(str)
    IN  [p \in 1..(2 * padded_len + 1) |->
           IF p <= 2 * len THEN hex[p]
           ELSE IF p = 2 * padded_len + 1 THEN 0
           ELSE IF v \in {"fixed", "standalone"} /\ len > 0 /\ p = 2 * len + 1 THEN 0
           ELSE 48]

\* pad_string_data(str, padded_length): the string returned and *padded_length
pad_string_data(v, str) ==
    [s |-> CStr(PaddedBuffer(v, str)), padded_len |-> PaddedLen(Len(str))]

\* offset2 = offset1 + 32 + padded_len1, and so on: the length word and the data
NextOffset_noLengthWord(offset, padded_len) == offset + padded_len
NextOffset(offset, padded_len) == offset + 32 + padded_len

\* offset1 .. offset5 for the given padded lengths
RECURSIVE Offsets(_, _)
Offsets(padded_lens, i) ==
    IF i = 1 THEN FirstOffset
    ELSE NextOffset(Offsets(padded_lens, i - 1), padded_lens[i - 1])

\* encode_digest_hash_call(str1 .. str5): NULL when an allocation fails, else
\* the selector without its "0x", the five offsets, and for every string its
\* length and its padded text; total_size is computed from the same strings,
\* so snprintf cuts nothing off
encode_digest_hash_call(v, str, allocOk) ==
    LET padded == [i \in 1..5 |-> pad_string_data(v, str[i])]
        offset == [i \in 1..5 |-> Offsets([k \in 1..5 |-> padded[k].padded_len], i)]
        tail(i) == Hex64(Len(str[i])) \o padded[i].s
    IN  IF ~allocOk
        THEN [null |-> TRUE, s |-> <<>>]
        ELSE [null |-> FALSE,
              s |-> SubSeq(SignatureSelector, 3, 10)
                    \o Hex64(offset[1]) \o Hex64(offset[2]) \o Hex64(offset[3])
                    \o Hex64(offset[4]) \o Hex64(offset[5])
                    \o tail(1) \o tail(2) \o tail(3) \o tail(4) \o tail(5)]

(* ------------------------------------------------------------------ *)
(* Response scraping and comparison                                   *)
(* ------------------------------------------------------------------ *)
\* extract_result(json): the text between the pattern and the next quote;
\* null when the pattern or the closing quote is missing or malloc fails
extract_result(json, mallocOk) ==
    LET result_start == StrStr(json, ResultPattern)
        vstart == result_start + Len(ResultPattern)
        result_end == IF result_start = 0 THEN 0 ELSE StrChr(json, vstart, 34)
    IN  IF result_start = 0 \/ result_end = 0 \/ ~mallocOk
        THEN [null |-> TRUE, s |-> <<>>]
        ELSE [null |-> FALSE, s |-> SubSeq(json, vstart, result_end - 1)]

\* strip_trailing_zeros(hex_result, stripped, stripped_size)
strip_trailing_zeros_whole(hex_result, stripped_size) ==
    IF Len(hex_result) < MinResultLen
    THEN <<>>
    ELSE SubSeq(hex_result, 3, Len(hex_result))
strip_trailing_zeros_short(hex_result, stripped_size) ==
    IF Len(hex_result) < MinResultLen
    THEN <<>>
    ELSE SubSeq(hex_result, 3, 1 + CopyLen)
strip_trailing_zeros(hex_result, stripped_size) ==
    IF Len(hex_result) < MinResultLen
    THEN <<>>
    ELSE LET copy_len == IF CopyLen >= stripped_size THEN stripped_size - 1 ELSE CopyLen
         IN  SubSeq(hex_result, 3, 2 + copy_len)

\* strcmp(a, b) == 0 on NUL-free strings
StrEq(a, b) == a = b

(* ------------------------------------------------------------------ *)
(* Credential record and the structured-header extractor ("fixed")    *)
(* ------------------------------------------------------------------ *)
FieldOrder == <<"username", "realm", "uri", "nonce", "response">>
RecordFields == {"username", "realm", "uri", "nonce", "response", "method"}

\* sip_auth_t auth = {0}: six empty strings
ZeroAuth == [f \in RecordFields |-> <<>>]

\* the test of one digest field: a non-null pointer and a length below the bound
FieldOk_inclusive(fld) == fld.s /\ fld.len <= MAX_FIELD_SIZE
FieldOk(fld) == fld.s /\ fld.len < MAX_FIELD_SIZE

\* memcpy(dst, fld.s, fld.len); dst[fld.len] = '\0'
CopyField(fld) == SubSeq(fld.buf, 1, fld.len)

\* the method of the request line, "REGISTER" when it does not fit
MethodOf(m) == IF m.len < MAX_FIELD_SIZE THEN CopyField(m) ELSE REGISTER

\* extract_auth_components(msg, auth): rc 0 and the filled record, or rc -1;
\* the fields are taken in order and the first bad one ends the extraction
extract_auth_components(msg) ==
    IF ~msg.parse_headers_ok \/ ~msg.has_auth \/ ~msg.cred_ok
    THEN [rc |-> -1, auth |-> ZeroAuth, failed |-> "header"]
    ELSE LET bad == {i \in 1..5 : ~FieldOk(msg.digest[FieldOrder[i]])}
             firstBad == IF bad = {} THEN 6 ELSE SetMin(bad)
             filled == [f \in RecordFields |->
                          IF \E i \in 1..5 : i < firstBad /\ FieldOrder[i] = f
                          THEN CopyField(msg.digest[f])
                          ELSE <<>>]
         IN  IF bad # {}
             THEN [rc |-> -1, auth |-> filled, failed |-> FieldOrder[firstBad]]
             ELSE [rc |-> 0,
                   auth |-> [filled EXCEPT !["method"] = MethodOf(msg.method)],
                   failed |-> "none"]

(* ------------------------------------------------------------------ *)
(* The raw-string extractor ("working")                               *)
(* ------------------------------------------------------------------ *)
\* char pattern[64] in extract_field
PatternBufSize == 64

IsHexDigit(c) == (c >= 48 /\ c <= 57) \/ (c >= 97 /\ c <= 102) \/ (c >= 65 /\ c <= 70)
HexVal(c) == IF c <= 57 THEN c - 48 ELSE IF c >= 97 THEN c - 87 ELSE c - 55
IsSpace(c) == c = 32 \/ (c >= 9 /\ c <= 13)

\* (char)strtol(hex, NULL, 16) for the two characters after a '%', as a byte:
\* leading white space and a sign are skipped, then the hex digits are read
HexByte(c1, c2) ==
    LET v == IF IsHexDigit(c1)
             THEN (IF IsHexDigit(c2) THEN 16 * HexVal(c1) + HexVal(c2) ELSE HexVal(c1))
             ELSE IF IsSpace(c1) \/ c1 = 43
                  THEN (IF IsHexDigit(c2) THEN HexVal(c2) ELSE 0)
                  ELSE IF c1 = 45
                       THEN (IF IsHexDigit(c2) THEN 0 - HexVal(c2) ELSE 0)
                       ELSE 0
    IN  (v + 256) % 256

\* The loop of url_decode reads the source token by token: a '%' that has two
\* characters after it is a token of three characters, any other character a
\* token of one; each token yields one byte.  The loop is unfolded here by
\* halving the range, so that a long header needs no deep recursion.
IsEscape(src, j) == src[j] = 37 /\ j + 1 < Len(src)

\* whether the loop index reaches position i (no earlier escape swallows it)
RECURSIVE IsTokStart(_, _)
IsTokStart(src, i) ==
    \/ i = 1
    \/ ~ \/ (i >= 2 /\ IsEscape(src, i - 1) /\ IsTokStart(src, i - 1))
         \/ (i >= 3 /\ IsEscape(src, i - 2) /\ IsTokStart(src, i - 2))

\* the byte one loop iteration stores for the token at i
DecodeToken(src, i) ==
    IF IsEscape(src, i) THEN HexByte(src[i + 1], src[i + 2])
    ELSE IF src[i] = 43 THEN 32
    ELSE src[i]

\* the bytes stored for the tokens of src[lo..hi], lo being a token start
RECURSIVE UrlDecodeRange(_, _, _)
UrlDecodeRange(src, lo, hi) ==
    IF lo > hi THEN <<>>
    ELSE LET mid == (lo + hi + 1) \div 2
             cuts == {m \in (lo + 1)..hi : m >= mid - 2 /\ m <= mid + 2 /\ IsTokStart(src, m)}
         IN  IF cuts = {}
             THEN <<DecodeToken(src, lo)>>
             ELSE UrlDecodeRange(src, lo, SetMin(cuts) - 1)
                  \o UrlDecodeRange(src, SetMin(cuts), hi)

\* url_decode(src, dest, dest_size): the bytes written to dest before the NUL;
\* the loop stops once dest_size - 1 bytes are stored
url_decode(src, dest_size) ==
    LET all == UrlDecodeRange(src, 1, Len(src))
    IN  IF Len(all) <= dest_size - 1 THEN all ELSE SubSeq(all, 1, dest_size - 1)

Take(s, n) == IF Len(s) <= n THEN s ELSE SubSeq(s, 1, n)

\* extract_field(auth_header, field_name, output, output_size)
extract_field(auth_header, field_name, output_size) ==
    LET pattern == Take(field_name \o <<61, 34>>, PatternBufSize - 1)
        start == StrStr(auth_header, pattern)
        vstart == start + Len(pattern)
        end == IF start = 0 THEN 0 ELSE StrChr(auth_header, vstart, 34)
        field_len == IF end - vstart >= output_size THEN output_size - 1 ELSE end - vstart
    IN  IF start = 0 \/ end = 0
        THEN [found |-> FALSE, out |-> <<>>]
        ELSE [found |-> TRUE, out |-> SubSeq(auth_header, vstart, vstart + field_len - 1)]

\* the field names, as the C string literals passed to extract_field
FieldName(f) ==
    CASE f = "username" -> <<117, 115, 101, 114, 110, 97, 109, 101>>
      [] f = "realm" -> <<114, 101, 97, 108, 109>>
      [] f = "uri" -> <<117, 114, 105>>
      [] f = "nonce" -> <<110, 111, 110, 99, 101>>
      [] f = "response" -> <<114, 101, 115, 112, 111, 110, 115, 101>>

\* parse_auth_header(auth_header, auth): 1 and the filled record, or 0
parse_auth_header(auth_header) ==
    LET decoded_header == CStr(url_decode(auth_header, MAX_AUTH_HEADER_SIZE))
        got == [f \in {FieldOrder[i] : i \in 1..5} |->
                  extract_field(decoded_header, FieldName(f), MAX_FIELD_SIZE)]
        bad == {i \in 1..5 : ~got[FieldOrder[i]].found}
        firstBad == IF bad = {} THEN 6 ELSE SetMin(bad)
        filled == [f \in RecordFields |->
                     IF \E i \in 1..5 : i < firstBad /\ FieldOrder[i] = f
                     THEN got[f].out
                     ELSE <<>>]
    IN  IF bad # {}
        THEN [rc |-> 0, auth |-> filled, failed |-> FieldOrder[firstBad]]
        ELSE [rc |-> 1, auth |-> [filled EXCEPT !["method"] = REGISTER], failed |-> "none"]

\* the built-in header web3_auth_check_func falls back to
test_auth_header == <<117, 115, 101, 114, 110, 97, 109, 101, 61, 34, 116, 101, 115, 116, 117, 115, 101, 114, 34, 44, 114, 101, 97, 108, 109, 61, 34, 115, 105, 112, 46, 101, 120, 97, 109, 112, 108, 101, 46, 99, 111, 109, 34, 44, 117, 114, 105, 61, 34, 115, 105, 112, 58, 115, 105, 112, 46, 101, 120, 97, 109, 112, 108, 101, 46, 99, 111, 109, 34, 44, 110, 111, 110, 99, 101, 61, 34, 49, 50, 51, 52, 53, 54, 55, 56, 57, 48, 97, 98, 99, 100, 101, 102, 34, 44, 114, 101, 115, 112, 111, 110, 115, 101, 61, 34, 49, 97, 50, 98, 51, 99, 52, 100, 53, 101, 54, 102, 55, 56, 57, 48, 34>>

\* const char* auth_header_input = auth_header_param ? auth_header_param : test_auth_header
auth_header_input(param) == IF param.null THEN test_auth_header ELSE param.s

(* ------------------------------------------------------------------ *)
(* Inputs: requests, raw headers and response bodies                  *)
(* ------------------------------------------------------------------ *)
\* length of a field that is well over the bound
OverLen == 300

\* deadbeefdeadbeefdeadbeefdeadbeef
A32 == <<100, 101, 97, 100, 98, 101, 101, 102, 100, 101, 97, 100, 98, 101, 101, 102, 100, 101, 97, 100, 98, 101, 101, 102, 100, 101, 97, 100, 98, 101, 101, 102>>
\* deadbeefdeadbeefdeadbeefdeadbeee (differs from A32 in the last character)
B32 == <<100, 101, 97, 100, 98, 101, 101, 102, 100, 101, 97, 100, 98, 101, 101, 102, 100, 101, 97, 100, 98, 101, 101, 102, 100, 101, 97, 100, 98, 101, 101, 101>>
\* DEADBEEFDEADBEEFDEADBEEFDEADBEEF
A32U == <<68, 69, 65, 68, 66, 69, 69, 70, 68, 69, 65, 68, 66, 69, 69, 70, 68, 69, 65, 68, 66, 69, 69, 70, 68, 69, 65, 68, 66, 69, 69, 70>>
Z32 == Rep(48, 32)
\* 0x
Hex0x == <<48, 120>>

\* the client responses tried
Responses == {A32, B32, A32U, <<>>, SubSeq(A32, 1, 31), A32 \o Z32}

\* a str of the host parser: a pointer into the header text (the closing quote
\* follows the value) and a length; a missing attribute has a null pointer
Str(val) == [s |-> TRUE, buf |-> val \o <<34>>, len |-> Len(val)]
NullStr == [s |-> FALSE, buf |-> <<>>, len |-> 0]

\* alice, sip.example.com, sip:sip.example.com, n0nce123
BaseValue(f) ==
    CASE f = "username" -> <<97, 108, 105, 99, 101>>
      [] f = "realm" -> <<115, 105, 112, 46, 101, 120, 97, 109, 112, 108, 101, 46, 99, 111, 109>>
      [] f = "uri" -> <<115, 105, 112, 58, 115, 105, 112, 46, 101, 120, 97, 109, 112, 108, 101, 46, 99, 111, 109>>
      [] f = "nonce" -> <<110, 48, 110, 99, 101, 49, 50, 51>>
      [] f = "response" -> A32

RequiredFields == {FieldOrder[i] : i \in 1..5}
BaseDigest == [f \in RequiredFields |-> Str(BaseValue(f))]
BaseMsg ==
    [parse_headers_ok |-> TRUE, has_auth |-> TRUE, cred_ok |-> TRUE,
     digest |-> BaseDigest, method |-> Str(REGISTER)]

\* the field values around the bound
EdgeStrs ==
    {NullStr, Str(<<>>), Str(Rep(97, MAX_FIELD_SIZE - 1)), Str(Rep(97, MAX_FIELD_SIZE)),
     Str(Rep(97, OverLen))}

\* INVITE
INVITE == <<73, 78, 86, 73, 84, 69>>

\* the requests given to web3_auth_check
FixedMsgs ==
    {[BaseMsg EXCEPT !.digest.response = Str(r)] : r \in Responses}
    \cup {[BaseMsg EXCEPT !.digest[f] = v] : f \in RequiredFields, v \in EdgeStrs}
    \cup {[BaseMsg EXCEPT !.digest = [f \in RequiredFields |-> Str(Rep(97, MAX_FIELD_SIZE - 1))]]}
    \cup {[BaseMsg EXCEPT !.method = Str(INVITE)],
          [BaseMsg EXCEPT !.method = Str(Rep(97, MAX_FIELD_SIZE))]}
    \cup {[BaseMsg EXCEPT !.parse_headers_ok = FALSE],
          [BaseMsg EXCEPT !.has_auth = FALSE],
          [BaseMsg EXCEPT !.cred_ok = FALSE]}

\* name="value"
Pair(f, val) == FieldName(f) \o <<61, 34>> \o val \o <<34>>

RECURSIVE JoinPairs(_)
JoinPairs(ps) ==
    IF ps = <<>> THEN <<>>
    ELSE IF Len(ps) = 1 THEN ps[1]
    ELSE ps[1] \o <<44>> \o JoinPairs(Tail(ps))

\* a raw header holding the given values, in the usual order; a field mapped
\* to the one-byte value <<0>> is left out of the header
Header(vals) ==
    LET present == SelectSeq(FieldOrder, LAMBDA f : vals[f] # <<0>>)
    IN  JoinPairs([i \in 1..Len(present) |-> Pair(present[i], vals[present[i]])])

BaseVals == [f \in RequiredFields |-> BaseValue(f)]

\* al%69ce
PctAlice == <<97, 108, 37, 54, 57, 99, 101>>

\* username="alice",realm="sip.example.com",uri="sip:sip.example.com",cnonce="c1ient",nonce="n0nce123",response="deadbeefdeadbeefdeadbeefdeadbeef"
CnonceHeader ==
    <<117, 115, 101, 114, 110, 97, 109, 101, 61, 34, 97, 108, 105, 99, 101, 34, 44, 114, 101, 97, 108, 109, 61, 34, 115, 105, 112, 46, 101, 120, 97, 109, 112, 108, 101, 46, 99, 111, 109, 34, 44, 117, 114, 105, 61, 34, 115, 105, 112, 58, 115, 105, 112, 46, 101, 120, 97, 109, 112, 108, 101, 46, 99, 111, 109, 34, 44, 99, 110, 111, 110, 99, 101, 61, 34, 99, 49, 105, 101, 110, 116, 34, 44, 110, 111, 110, 99, 101, 61, 34, 110, 48, 110, 99, 101, 49, 50, 51, 34, 44, 114, 101, 115, 112, 111, 110, 115, 101, 61, 34, 100, 101, 97, 100, 98, 101, 101, 102, 100, 101, 97, 100, 98, 101, 101, 102, 100, 101, 97, 100, 98, 101, 101, 102, 100, 101, 97, 100, 98, 101, 101, 102, 34>>

\* the raw headers given to web3_auth_check_func
WorkingHeaders ==
    {Header([BaseVals EXCEPT !["response"] = r]) : r \in Responses}
    \cup {Header([BaseVals EXCEPT ![f] = v]) :
            f \in RequiredFields, v \in {<<0>>, Rep(97, MAX_FIELD_SIZE)}}
    \cup {Header([BaseVals EXCEPT !["username"] = Rep(97, MAX_FIELD_SIZE - 1)]),
          Header([BaseVals EXCEPT !["username"] = PctAlice]),
          \* the closing quote of the last value is missing
          SubSeq(Header(BaseVals), 1, Len(Header(BaseVals)) - 1),
          \* a cnonce pair stands before the nonce pair
          CnonceHeader,
          \* the five fields, then ,x="aaa..." running past the decode buffer
          Header(BaseVals) \o <<44, 120, 61, 34>> \o Rep(97, MAX_AUTH_HEADER_SIZE) \o <<34>>,
          <<>>}

WorkingParams ==
    {[null |-> FALSE, s |-> h] : h \in WorkingHeaders} \cup {[null |-> TRUE, s |-> <<>>]}

NoMsg == [BaseMsg EXCEPT !.has_auth = FALSE]
NoParam == [null |-> TRUE, s |-> <<>>]

\* what one attempt is given
Inputs ==
    {[variant |-> "fixed", msg |-> m, param |-> NoParam] : m \in FixedMsgs}
    \cup {[variant |-> "working", msg |-> NoMsg, param |-> q] : q \in WorkingParams}

\* 0x and 64 hex digits whose first 32 are A32
FullResult == Hex0x \o A32 \o Z32

\* the values a "result" field may carry
ResultValues ==
    {<<>>, Hex0x, Hex0x \o A32, Hex0x \o A32 \o Rep(48, 31), FullResult,
     Hex0x \o B32 \o Z32, Hex0x \o A32 \o B32 \o <<48, 48>>, Hex0x \o A32U \o Z32,
     <<122, 122>> \o A32 \o Z32}

\* the ways a body may carry a result: none, "result":"V", "result": "V"
\* (other spacing), "result":"V (unterminated)
ResultParts ==
    {<<>>}
    \cup {ResultPattern \o v \o <<34>> : v \in ResultValues}
    \cup {<<34, 114, 101, 115, 117, 108, 116, 34, 58, 32, 34>> \o FullResult \o <<34>>}
    \cup {ResultPattern \o v : v \in {<<>>, FullResult}}

\* what precedes the result: nothing, "error":"User not found", "error":"boom",
\* "note":"User not found"
BodyHeads ==
    {<<>>,
     <<34, 101, 114, 114, 111, 114, 34, 58, 34, 85, 115, 101, 114, 32, 110, 111, 116, 32, 102, 111, 117, 110, 100, 34, 44>>,
     <<34, 101, 114, 114, 111, 114, 34, 58, 34, 98, 111, 111, 109, 34, 44>>,
     <<34, 110, 111, 116, 101, 34, 58, 34, 85, 115, 101, 114, 32, 110, 111, 116, 32, 102, 111, 117, 110, 100, 34, 44>>}

\* what follows the result: nothing, or ,"error":"x"
BodyTails == {<<>>, <<44, 34, 101, 114, 114, 111, 114, 34, 58, 34, 120, 34>>}

\* the response bodies the remote endpoint may send; among them the empty body
Bodies ==
    {<<123>> \o h \o r \o t \o <<125>> : h \in BodyHeads, r \in ResultParts, t \in BodyTails}
    \cup {<<>>}

(* ------------------------------------------------------------------ *)
(* State of one authentication attempt                                *)
(* ------------------------------------------------------------------ *)
VARIABLES
    pc,          \* position of the attempt in the protocol
    input,       \* what the entry point was called with
    auth,        \* sip_auth_t auth
    call_data,   \* char* call_data: "none", "live" or "freed", its arguments and its text
    payload,     \* the JSON-RPC payload buffer: "none", "live" or "freed"
    remote,      \* what the endpoint does with the call: "none", "answer", "fail", "silent"
    body,        \* the body the endpoint sends
    wire,        \* the part of the body not yet handed to the write callback
    write_error, \* the write callback returned 0
    chunks,      \* invocations of the write callback
    response,    \* struct ResponseData response
    calls,       \* invocations of curl_easy_perform
    res,         \* CURLcode res: "none", "CURLE_OK" or "ERR"
    result_hex,  \* char* result_hex
    compared,    \* strcmp(expected_response, auth->response) was evaluated
    outcome,     \* the branch the attempt ended on
    auth_result, \* the value the verification function returns (0: not returned)
    ret          \* the value the entry point returns to the host (0: not returned)

\* the variables of the functions that are also run on their own
VARIABLES
    keccak,      \* one call of keccak256: its locals and its position
    enc,         \* one call of encode_digest_hash_call: its arguments and locals
    att,         \* two attempts running side by side: the locals of each
    buffers,     \* the response buffers of the two attempts
    config       \* rpc_url and contract_address

\* the variables of the single attempt
attempt_vars ==
    <<pc, input, auth, call_data, payload, remote, body, wire, write_error, chunks,
      response, calls, res, result_hex, compared, outcome, auth_result, ret>>

\* the others, which a step of the single attempt leaves alone
others == <<keccak, enc, att, buffers, config>>

vars == <<attempt_vars, others>>

NoCallData == [state |-> "none", args |-> <<>>, hex |-> <<>>]
\* struct ResponseData response = {0}
NoResponse == [null |-> TRUE, memory |-> <<>>, size |-> 0, freed |-> FALSE]
NoResult == [null |-> TRUE, s |-> <<>>]
NoInput == [variant |-> "fixed", msg |-> NoMsg, param |-> NoParam]

\* the single attempt before the entry point is called
AttemptInit ==
    /\ pc = "Idle"
    /\ input = NoInput
    /\ auth = ZeroAuth
    /\ call_data = NoCallData
    /\ payload = "none"
    /\ remote = "none"
    /\ body = <<>>
    /\ wire = <<>>
    /\ write_error = FALSE
    /\ chunks = 0
    /\ response = NoResponse
    /\ calls = 0
    /\ res = "none"
    /\ result_hex = NoResult
    /\ compared = FALSE
    /\ outcome = "none"
    /\ auth_result = 0
    /\ ret = 0

\* no call of keccak256 under way
NoKeccak ==
    [pc |-> "idle", input |-> <<>>, offset |-> 0, input_len |-> 0, state |-> ZeroState,
     round |-> 0, i |-> 0, current |-> ZeroLane, resume |-> "none", perms |-> 0,
     output |-> <<>>]

\* no call of encode_digest_hash_call under way
NoEnc ==
    [pc |-> "idle", variant |-> "fixed", str |-> <<<<>>, <<>>, <<>>, <<>>, <<>>>>,
     padded |-> <<>>, offset |-> <<>>, call_data |-> [null |-> TRUE, s |-> <<>>]]

\* the two attempts that run side by side
Attempts == {1, 2}

\* one of them before its entry point is called
IdleAttempt ==
    [pc |-> "Idle", input |-> NoInput, auth |-> ZeroAuth, call_data |-> NoCallData,
     url |-> "", to |-> "", remote |-> "none", body |-> <<>>, wire |-> <<>>,
     chunks |-> 0, res |-> "none", result_hex |-> NoResult, outcome |-> "none",
     ret |-> 0]
NoAttempts == [a \in Attempts |-> IdleAttempt]
NoBuffers == [a \in Attempts |-> NoResponse]

\* static char *rpc_url = DEFAULT_RPC_URL, *contract_address = DEFAULT_CONTRACT_ADDRESS
DEFAULT_RPC_URL == "https://testnet.sapphire.oasis.dev"
DEFAULT_CONTRACT_ADDRESS == "0x1b55e67Ce5118559672Bf9EC0564AE3A46C41000"
ModuleConfig ==
    [rpc_url |-> DEFAULT_RPC_URL, contract_address |-> DEFAULT_CONTRACT_ADDRESS]

Init ==
    /\ AttemptInit
    /\ keccak = NoKeccak
    /\ enc = NoEnc
    /\ att = NoAttempts
    /\ buffers = NoBuffers
    /\ config = ModuleConfig

(* ------------------------------------------------------------------ *)
(* Return values                                                      *)
(* ------------------------------------------------------------------ *)
\* auth_result = 1 (fixed), auth_result = 200 (working)
SuccessResult(v) == IF v = "fixed" THEN 1 ELSE 200
\* auth_result = -1 / 403 on a response mismatch
MismatchResult(v) == IF v = "fixed" THEN 0 - 1 ELSE 403
\* auth_result = -1 / 403 when the body holds the error key
ErrorKeyResult(v) == IF v = "fixed" THEN 0 - 1 ELSE 403
\* return -1 / 403, auth_result = -1 / 403 on the other failure branches
FailResult(v) == IF v = "fixed" THEN 0 - 1 ELSE 403

\* what the entry point hands back for a result of the verification
EntryReturn_leaky(v, result) == IF result = SuccessResult(v) THEN 1 ELSE 0 - result
EntryReturn(v, result) == IF result = SuccessResult(v) THEN 1 ELSE 0 - 1

(* ------------------------------------------------------------------ *)
(* The attempt, step by step                                          *)
(* ------------------------------------------------------------------ *)
\* the host calls the entry point
Start ==
    /\ pc = "Idle"
    /\ UNCHANGED others
    /\ \E i \in Inputs : input' = i
    /\ pc' = "Extracting"
    /\ UNCHANGED <<auth, call_data, payload, remote, body, wire, write_error, chunks,
                   response, calls, res, result_hex, compared, outcome, auth_result, ret>>

\* the extractor of the variant, as [ok, auth]
Extraction(i) ==
    IF i.variant = "fixed"
    THEN LET e == extract_auth_components(i.msg)
         IN  [ok |-> e.rc = 0, auth |-> e.auth, failed |-> e.failed]
    ELSE LET e == parse_auth_header(auth_header_input(i.param))
         IN  [ok |-> e.rc = 1, auth |-> e.auth, failed |-> e.failed]

\* extraction: on failure the entry point returns -1 at once
Extract ==
    /\ pc = "Extracting"
    /\ UNCHANGED others
    /\ LET e == Extraction(input)
       IN  IF e.ok
           THEN /\ auth' = e.auth
                /\ pc' = "Encoding"
                /\ UNCHANGED <<outcome, ret>>
           ELSE /\ auth' = e.auth
                /\ pc' = "Done"
                /\ outcome' = "InvalidCredentials"
                /\ ret' = 0 - 1
    /\ UNCHANGED <<input, call_data, payload, remote, body, wire, write_error, chunks,
                   response, calls, res, result_hex, compared, auth_result>>

\* the arguments handed to encode_digest_hash_call, in order
CallArgs_recordOrder(a) == <<a.username, a.realm, a.uri, a.nonce, a.response>>
CallArgs(a) == <<a.username, a.realm, a.method, a.uri, a.nonce>>

\* encode_digest_hash_call: a NULL return (allocation failure) ends the attempt
Encode ==
    /\ pc = "Encoding"
    /\ UNCHANGED others
    /\ \E ok \in BOOLEAN :
         IF ok
         THEN /\ call_data' = [state |-> "live", args |-> CallArgs(auth),
                               hex |-> encode_digest_hash_call(input.variant,
                                                               CallArgs(auth), TRUE).s]
              /\ pc' = "AwaitingRemoteCall"
              /\ UNCHANGED <<outcome, auth_result, ret>>
         ELSE /\ pc' = "Done"
              /\ outcome' = "EncodingFailure"
              /\ auth_result' = FailResult(input.variant)
              /\ ret' = EntryReturn(input.variant, FailResult(input.variant))
              /\ UNCHANGED call_data
    /\ UNCHANGED <<input, auth, payload, remote, body, wire, write_error, chunks,
                   response, calls, res, result_hex, compared>>

\* what the endpoint may do with a call
RemoteBehaviours == {"answer", "fail", "silent"}

\* curl_easy_init, the payload buffer, the options, then curl_easy_perform is
\* entered: the one place where the remote call is issued
IssueCall ==
    /\ pc = "AwaitingRemoteCall"
    /\ UNCHANGED others
    /\ remote = "none"
    /\ \E curlOk \in BOOLEAN, payloadOk \in BOOLEAN :
         IF ~curlOk
         THEN /\ pc' = "Done"
              /\ outcome' = "CurlInitFailure"
              /\ auth_result' = FailResult(input.variant)
              /\ ret' = EntryReturn(input.variant, FailResult(input.variant))
              /\ call_data' = [call_data EXCEPT !.state = "freed"]
              /\ UNCHANGED <<payload, remote, body, wire, calls>>
         ELSE IF input.variant = "fixed" /\ ~payloadOk
         THEN /\ pc' = "Done"
              /\ outcome' = "PayloadAllocFailure"
              /\ auth_result' = FailResult(input.variant)
              /\ ret' = EntryReturn(input.variant, FailResult(input.variant))
              /\ call_data' = [call_data EXCEPT !.state = "freed"]
              /\ UNCHANGED <<payload, remote, body, wire, calls>>
         ELSE /\ payload' = "live"
              /\ calls' = calls + 1
              /\ \E r \in RemoteBehaviours :
                   /\ remote' = r
                   /\ IF r = "answer"
                      THEN \E b \in Bodies : body' = b /\ wire' = b
                      ELSE UNCHANGED <<body, wire>>
              /\ UNCHANGED <<pc, outcome, auth_result, ret, call_data>>
    /\ UNCHANGED <<input, auth, write_error, chunks, response, res, result_hex, compared>>

\* WriteMemoryCallback(contents, size, nmemb, response): the bytes taken and
\* the buffer afterwards
WriteMemoryCallback_fromStart(resp, contents, reallocOk) ==
    IF ~reallocOk
    THEN [taken |-> 0, response |-> resp]
    ELSE [taken |-> Len(contents),
          response |-> [resp EXCEPT !.null = FALSE,
                                    !.memory = contents,
                                    !.size = resp.size + Len(contents)]]
WriteMemoryCallback(resp, contents, reallocOk) ==
    IF ~reallocOk
    THEN [taken |-> 0, response |-> resp]
    ELSE [taken |-> Len(contents),
          response |-> [resp EXCEPT !.null = FALSE,
                                    !.memory = SubSeq(resp.memory, 1, resp.size) \o contents,
                                    !.size = resp.size + Len(contents)]]

\* the sizes of the next chunk: all that is left, or half of it while another
\* invocation is still allowed
ChunkSizes ==
    {Len(wire)} \cup {n \in {Len(wire) \div 2} : n >= 1 /\ chunks + 1 < MaxChunks}

\* the transport hands the next chunk of the body to the write callback; an
\* empty body may or may not be handed over (as a chunk of zero bytes)
WriteChunk ==
    /\ pc = "AwaitingRemoteCall"
    /\ UNCHANGED others
    /\ remote = "answer"
    /\ ~write_error
    /\ chunks < MaxChunks
    /\ wire # <<>> \/ (body = <<>> /\ chunks = 0)
    /\ \E n \in ChunkSizes, reallocOk \in BOOLEAN :
         LET w == WriteMemoryCallback(response, SubSeq(wire, 1, n), reallocOk)
         IN  /\ response' = w.response
             /\ IF w.taken = n
                THEN wire' = SubSeq(wire, n + 1, Len(wire)) /\ UNCHANGED write_error
                ELSE write_error' = TRUE /\ UNCHANGED wire
    /\ chunks' = chunks + 1
    /\ UNCHANGED <<pc, input, auth, call_data, payload, remote, body, calls, res,
                   result_hex, compared, outcome, auth_result, ret>>

\* curl_easy_perform returns CURLE_OK: the whole body was delivered
PerformOk ==
    /\ pc = "AwaitingRemoteCall"
    /\ UNCHANGED others
    /\ remote = "answer"
    /\ wire = <<>>
    /\ ~write_error
    /\ res' = "CURLE_OK"
    /\ pc' = "ParsingResponse"
    /\ UNCHANGED <<input, auth, call_data, payload, remote, body, wire, write_error,
                   chunks, response, calls, result_hex, compared, outcome, auth_result,
                   ret>>

\* the transfer can time out only where CURLOPT_TIMEOUT is set
HasTimeout(v) == v = "fixed"

\* the cleanup at the end of the verification function
Cleanup(v) ==
    /\ call_data' = [call_data EXCEPT !.state = "freed"]
    /\ payload' = IF v = "fixed" THEN "freed" ELSE payload

\* curl_easy_perform returns an error: connection failure, a transfer broken
\* off, the write callback refusing a chunk, or the timeout
PerformFail_retry ==
    /\ pc = "AwaitingRemoteCall"
    /\ UNCHANGED others
    /\ \/ remote = "fail"
       \/ remote = "answer"
       \/ remote = "silent" /\ HasTimeout(input.variant)
    /\ res' = "ERR"
    /\ remote' = "none"
    /\ wire' = <<>>
    /\ write_error' = FALSE
    /\ chunks' = 0
    /\ response' = NoResponse
    /\ UNCHANGED <<pc, input, auth, call_data, payload, body, calls, result_hex,
                   compared, outcome, auth_result, ret>>
PerformFail ==
    /\ pc = "AwaitingRemoteCall"
    /\ UNCHANGED others
    /\ \/ remote = "fail"
       \/ remote = "answer"
       \/ remote = "silent" /\ HasTimeout(input.variant)
    /\ res' = "ERR"
    /\ pc' = "Done"
    /\ outcome' = "TransportFailure"
    /\ auth_result' = FailResult(input.variant)
    /\ ret' = EntryReturn(input.variant, FailResult(input.variant))
    /\ Cleanup(input.variant)
    /\ UNCHANGED <<input, auth, remote, body, wire, write_error, chunks, response,
                   calls, result_hex, compared>>

\* the body of the CURLE_OK branch: the error key is looked for first, then
\* the result is extracted, cut to its first characters and compared
VerifyResponse_resultFirst(v, memory, client_response, mallocOk) ==
    LET r == extract_result(memory, mallocOk)
        expected_response == strip_trailing_zeros(r.s, ExpectedResponseSize)
    IN  IF ~r.null
        THEN [outcome |-> IF StrEq(expected_response, client_response)
                          THEN "Authorized" ELSE "ResponseMismatch",
              auth_result |-> IF StrEq(expected_response, client_response)
                              THEN SuccessResult(v) ELSE MismatchResult(v),
              result_hex |-> r, compared |-> TRUE]
        ELSE [outcome |-> "RemoteError", auth_result |-> ErrorKeyResult(v),
              result_hex |-> NoResult, compared |-> FALSE]
VerifyResponse(v, memory, client_response, mallocOk) ==
    IF StrStr(memory, ErrorKey) # 0
    THEN [outcome |-> IF StrStr(memory, UserNotFoundMarker) # 0
                      THEN "UserNotFound" ELSE "RemoteError",
          auth_result |-> ErrorKeyResult(v),
          result_hex |-> NoResult, compared |-> FALSE]
    ELSE LET r == extract_result(memory, mallocOk)
             expected_response == strip_trailing_zeros(r.s, ExpectedResponseSize)
         IN  IF ~r.null
             THEN IF StrEq(expected_response, client_response)
                  THEN [outcome |-> "Authorized", auth_result |-> SuccessResult(v),
                        result_hex |-> r, compared |-> TRUE]
                  ELSE [outcome |-> "ResponseMismatch", auth_result |-> MismatchResult(v),
                        result_hex |-> r, compared |-> TRUE]
             ELSE [outcome |-> "RemoteError", auth_result |-> FailResult(v),
                   result_hex |-> NoResult, compared |-> FALSE]

\* reading a NULL response.memory as a string is undefined: the process dies
\* on the access, or the read yields no bytes
NullReadOutcomes == {"crash", "empty"}

\* the CURLE_OK branch, the release of the buffers and the return to the host
Parse ==
    /\ pc = "ParsingResponse"
    /\ UNCHANGED others
    /\ \E mallocOk \in BOOLEAN, ub \in NullReadOutcomes :
         IF response.null /\ ub = "crash"
         THEN /\ pc' = "Crashed"
              /\ UNCHANGED <<response, call_data, payload, result_hex, compared, outcome,
                             auth_result, ret>>
         ELSE LET v == VerifyResponse(input.variant, response.memory, auth.response, mallocOk)
              IN  /\ pc' = "Done"
                  /\ outcome' = v.outcome
                  /\ auth_result' = v.auth_result
                  /\ result_hex' = v.result_hex
                  /\ compared' = v.compared
                  /\ ret' = EntryReturn(input.variant, v.auth_result)
                  /\ response' = [response EXCEPT !.freed = ~response.null]
                  /\ Cleanup(input.variant)
    /\ UNCHANGED <<input, auth, remote, body, wire, write_error, chunks, calls, res>>

\* the entry point has returned; the host calls it again for the next request
NewAttempt ==
    /\ pc = "Done"
    /\ UNCHANGED others
    /\ pc' = "Idle"
    /\ input' = NoInput
    /\ auth' = ZeroAuth
    /\ call_data' = NoCallData
    /\ payload' = "none"
    /\ remote' = "none"
    /\ body' = <<>>
    /\ wire' = <<>>
    /\ write_error' = FALSE
    /\ chunks' = 0
    /\ response' = NoResponse
    /\ calls' = 0
    /\ res' = "none"
    /\ result_hex' = NoResult
    /\ compared' = FALSE
    /\ outcome' = "none"
    /\ auth_result' = 0
    /\ ret' = 0

Next ==
    \/ Start
    \/ Extract
    \/ Encode
    \/ IssueCall
    \/ WriteChunk
    \/ PerformOk
    \/ PerformFail
    \/ Parse
    \/ NewAttempt

Spec == Init /\ [][Next]_vars

(* ------------------------------------------------------------------ *)
(* keccak256, step by step                                            *)
(* ------------------------------------------------------------------ *)
\* abc
Abc == <<97, 98, 99>>

\* the messages hashed: the empty one, "abc", the signature, and messages
\* around the length of one block
KeccakInputs ==
    {<<>>, Abc, Signature, Rep(97, KeccakRate - 1), Rep(97, KeccakRate), Rep(97, KeccakRate + 1)}

\* keccak256 is called: uint64_t state[25] = {0}, offset = 0
KeccakCall ==
    /\ keccak.pc = "idle"
    /\ UNCHANGED <<attempt_vars, enc, att, buffers, config>>
    /\ \E m \in KeccakInputs :
         keccak' = [NoKeccak EXCEPT !.pc = "absorb", !.input = m, !.input_len = Len(m)]

\* while (input_len >= rate): the next block is xored in and keccak_f1600 entered
AbsorbBlock ==
    /\ keccak.pc = "absorb"
    /\ UNCHANGED <<attempt_vars, enc, att, buffers, config>>
    /\ keccak.input_len >= KeccakRate
    /\ keccak' = [keccak EXCEPT
                    !.state = XorBytes(keccak.state,
                                       SubSeq(keccak.input, keccak.offset + 1,
                                              keccak.offset + KeccakRate)),
                    !.pc = "theta", !.round = 0, !.resume = "absorb"]

\* the final block and the padding, then keccak_f1600 is entered
FinalBlock ==
    /\ keccak.pc = "absorb"
    /\ UNCHANGED <<attempt_vars, enc, att, buffers, config>>
    /\ keccak.input_len < KeccakRate
    /\ keccak' = [keccak EXCEPT
                    !.state = PadFinal(keccak.state, keccak.input, keccak.offset,
                                       keccak.input_len),
                    !.pc = "theta", !.round = 0, !.resume = "final"]

ThetaStep ==
    /\ keccak.pc = "theta"
    /\ UNCHANGED <<attempt_vars, enc, att, buffers, config>>
    /\ keccak' = [keccak EXCEPT !.state = Theta(keccak.state), !.pc = "rhopi", !.i = 0,
                                !.current = Theta(keccak.state)[2]]

\* one iteration of the Rho and Pi loop
RhoPiStep ==
    /\ keccak.pc = "rhopi"
    /\ UNCHANGED <<attempt_vars, enc, att, buffers, config>>
    /\ LET p == RhoPiIter([state |-> keccak.state, current |-> keccak.current], keccak.i)
       IN  keccak' = [keccak EXCEPT !.state = p.state, !.current = p.current,
                                    !.i = keccak.i + 1,
                                    !.pc = IF keccak.i + 1 = 24 THEN "chi" ELSE "rhopi"]

ChiStep ==
    /\ keccak.pc = "chi"
    /\ UNCHANGED <<attempt_vars, enc, att, buffers, config>>
    /\ keccak' = [keccak EXCEPT !.state = Chi(keccak.state), !.pc = "iota"]

\* the Iota step ends the round; after the last round keccak_f1600 returns,
\* into the absorb loop (offset += rate, input_len -= rate) or to the output
IotaStep ==
    /\ keccak.pc = "iota"
    /\ UNCHANGED <<attempt_vars, enc, att, buffers, config>>
    /\ LET last == keccak.round + 1 = KECCAK_ROUNDS
           s == Iota(keccak.state, keccak.round)
       IN  keccak' =
             IF ~last
             THEN [keccak EXCEPT !.state = s, !.round = keccak.round + 1, !.pc = "theta"]
             ELSE IF keccak.resume = "absorb"
             THEN [keccak EXCEPT !.state = s, !.round = keccak.round + 1, !.pc = "absorb",
                                 !.perms = keccak.perms + 1,
                                 !.offset = keccak.offset + KeccakRate,
                                 !.input_len = keccak.input_len - KeccakRate]
             ELSE [keccak EXCEPT !.state = s, !.round = keccak.round + 1, !.pc = "extract",
                                 !.perms = keccak.perms + 1]

\* memcpy(output, state_bytes, 32)
ExtractOutput ==
    /\ keccak.pc = "extract"
    /\ UNCHANGED <<attempt_vars, enc, att, buffers, config>>
    /\ keccak' = [keccak EXCEPT !.output = Squeeze(keccak.state), !.pc = "done"]

\* keccak256 has returned; the next call starts afresh
KeccakReturn ==
    /\ keccak.pc = "done"
    /\ UNCHANGED <<attempt_vars, enc, att, buffers, config>>
    /\ keccak' = NoKeccak

KeccakNext ==
    \/ KeccakCall
    \/ AbsorbBlock
    \/ FinalBlock
    \/ ThetaStep
    \/ RhoPiStep
    \/ ChiStep
    \/ IotaStep
    \/ ExtractOutput
    \/ KeccakReturn

KeccakInit ==
    /\ AttemptInit
    /\ keccak = NoKeccak
    /\ enc = NoEnc
    /\ att = NoAttempts
    /\ buffers = NoBuffers
    /\ config = ModuleConfig

KeccakSpec == KeccakInit /\ [][KeccakNext]_vars

(* ------------------------------------------------------------------ *)
(* encode_digest_hash_call run on its own                             *)
(* ------------------------------------------------------------------ *)
\* longest string of the sweep over the lengths
MaxStrLen == 66

\* a string of n letters: b c d ...
StrOfLen(n) == SubSeq([i \in 1..n |-> 97 + (i % 26)], 1, n)

\* the bytes 0x01, 0x10, 0xff
ByteEdges == <<1, 16, 255>>

\* abcf
Abcf == <<97, 98, 99, 102>>

\* the strings that are combined freely
EncStrings == {<<>>, ByteEdges, StrOfLen(32), StrOfLen(33)}

\* the arguments the encoder is called with: every combination of EncStrings,
\* and every length up to MaxStrLen in the first and in the last place
EncInputs ==
    {<<a, b, c, d, e>> : a \in EncStrings, b \in EncStrings, c \in EncStrings,
                         d \in EncStrings, e \in EncStrings}
    \cup {<<StrOfLen(n), <<>>, ByteEdges, StrOfLen(32), Abcf>> : n \in 0..MaxStrLen}
    \cup {<<Abcf, StrOfLen(33), <<>>, ByteEdges, StrOfLen(n)>> : n \in 0..MaxStrLen}

\* the source files that hold the encoder: web3_auth_fixed.c,
\* web3_auth_from_working.c, web3_auth_standalone.c
EncVariants == {"fixed", "working", "standalone"}

\* encode_digest_hash_call(str1, .., str5) is called
EncodeCall ==
    /\ enc.pc = "idle"
    /\ UNCHANGED <<attempt_vars, keccak, att, buffers, config>>
    /\ \E v \in EncVariants, s \in EncInputs :
         enc' = [NoEnc EXCEPT !.pc = "called", !.variant = v, !.str = s]

\* the five calls of pad_string_data and the offsets computed from them
EncodePad ==
    /\ enc.pc = "called"
    /\ UNCHANGED <<attempt_vars, keccak, att, buffers, config>>
    /\ LET padded == [i \in 1..5 |-> pad_string_data(enc.variant, enc.str[i])]
       IN  enc' = [enc EXCEPT
                     !.pc = "padded",
                     !.padded = padded,
                     !.offset = [i \in 1..5 |->
                                   Offsets([k \in 1..5 |-> padded[k].padded_len], i)]]

\* the text is allocated and written, or the allocation fails; the value returned
EncodeReturn ==
    /\ enc.pc = "padded"
    /\ UNCHANGED <<attempt_vars, keccak, att, buffers, config>>
    /\ \E allocOk \in BOOLEAN :
         enc' = [enc EXCEPT
                   !.pc = "returned",
                   !.call_data = encode_digest_hash_call(enc.variant, enc.str, allocOk)]

\* the caller frees the text; the next call starts afresh
EncodeFree ==
    /\ enc.pc = "returned"
    /\ UNCHANGED <<attempt_vars, keccak, att, buffers, config>>
    /\ enc' = NoEnc

EncNext ==
    \/ EncodeCall
    \/ EncodePad
    \/ EncodeReturn
    \/ EncodeFree

EncInit ==
    /\ AttemptInit
    /\ keccak = NoKeccak
    /\ enc = NoEnc
    /\ att = NoAttempts
    /\ buffers = NoBuffers
    /\ config = ModuleConfig

EncSpec == EncInit /\ [][EncNext]_vars

(* ------------------------------------------------------------------ *)
(* Two attempts side by side                                          *)
(* ------------------------------------------------------------------ *)
\* RPC_URL and CONTRACT_ADDRESS of web3_auth_from_working.c
RPC_URL == "https://testnet.sapphire.oasis.dev"
CONTRACT_ADDRESS == "0x1b55e67Ce5118559672Bf9EC0564AE3A46C41000"

\* the configuration after the module parameters are read: the defaults, or
\* what modparam has set
Configs ==
    {ModuleConfig,
     [rpc_url |-> "http://127.0.0.1:8545",
      contract_address |-> "0x0000000000000000000000000000000000000001"]}

\* the endpoint and the contract an attempt of variant v uses
EndpointOf(v, cfg) == IF v = "fixed" THEN cfg.rpc_url ELSE RPC_URL
ContractOf(v, cfg) == IF v = "fixed" THEN cfg.contract_address ELSE CONTRACT_ADDRESS

\* struct ResponseData response = {0} is a local of the verification function:
\* every attempt has a buffer of its own
ResponseSlot_shared(a) == 1
ResponseSlot(a) == a

\* what the two attempts are given
PairInputs ==
    {[variant |-> "fixed", msg |-> BaseMsg, param |-> NoParam],
     [variant |-> "fixed", msg |-> [BaseMsg EXCEPT !.digest.response = Str(A32 \o Z32)],
      param |-> NoParam],
     [variant |-> "fixed", msg |-> NoMsg, param |-> NoParam],
     [variant |-> "working", msg |-> NoMsg,
      param |-> [null |-> FALSE, s |-> Header(BaseVals)]]}

\* {"result":"V"} after the given head
BodyOf(head, v) == <<123>> \o head \o ResultPattern \o v \o <<34, 125>>

\* "error":"boom",
ErrorBoom == <<34, 101, 114, 114, 111, 114, 34, 58, 34, 98, 111, 111, 109, 34, 44>>

\* the bodies the endpoint answers with: two results that agree on the first
\* 32 characters, one that does not, an error, and the empty body
PairBodies ==
    {BodyOf(<<>>, FullResult),
     BodyOf(<<>>, Hex0x \o A32 \o B32 \o <<48, 48>>),
     BodyOf(<<>>, Hex0x \o B32 \o Z32),
     BodyOf(ErrorBoom, FullResult),
     <<>>}

\* the locals of attempt a after a step
Step(a, new) == att' = [att EXCEPT ![a] = new]

\* the host calls the entry point for attempt a
PairStart(a) ==
    /\ att[a].pc = "Idle"
    /\ \E i \in PairInputs : Step(a, [att[a] EXCEPT !.pc = "Extracting", !.input = i])
    /\ UNCHANGED <<attempt_vars, keccak, enc, buffers, config>>

\* extraction; on failure the entry point returns -1 at once
PairExtract(a) ==
    /\ att[a].pc = "Extracting"
    /\ LET e == Extraction(att[a].input)
       IN  IF e.ok
           THEN Step(a, [att[a] EXCEPT !.pc = "Encoding", !.auth = e.auth])
           ELSE Step(a, [att[a] EXCEPT !.pc = "Done", !.auth = e.auth,
                                       !.outcome = "InvalidCredentials", !.ret = 0 - 1])
    /\ UNCHANGED <<attempt_vars, keccak, enc, buffers, config>>

\* the verification function is entered: response = {0}, the call data
PairEncode(a) ==
    /\ att[a].pc = "Encoding"
    /\ Step(a, [att[a] EXCEPT
                  !.pc = "AwaitingRemoteCall",
                  !.call_data = [state |-> "live", args |-> CallArgs(att[a].auth),
                                 hex |-> encode_digest_hash_call(att[a].input.variant,
                                                                 CallArgs(att[a].auth),
                                                                 TRUE).s]])
    /\ buffers' = [buffers EXCEPT ![ResponseSlot(a)] = NoResponse]
    /\ UNCHANGED <<attempt_vars, keccak, enc, config>>

\* the payload is written with the contract address and the call data, the URL
\* is set, and curl_easy_perform is entered; the endpoint answers or fails
PairIssueCall(a) ==
    /\ att[a].pc = "AwaitingRemoteCall"
    /\ att[a].remote = "none"
    /\ \/ \E b \in PairBodies :
            Step(a, [att[a] EXCEPT !.remote = "answer", !.body = b, !.wire = b,
                                   !.url = EndpointOf(att[a].input.variant, config),
                                   !.to = ContractOf(att[a].input.variant, config)])
       \/ Step(a, [att[a] EXCEPT !.remote = "fail",
                                 !.url = EndpointOf(att[a].input.variant, config),
                                 !.to = ContractOf(att[a].input.variant, config)])
    /\ UNCHANGED <<attempt_vars, keccak, enc, buffers, config>>

\* the transport hands the next chunk to the write callback: all that is left,
\* or the first half; an empty body may be handed over as a chunk of no bytes
PairWrite(a) ==
    /\ att[a].pc = "AwaitingRemoteCall"
    /\ att[a].remote = "answer"
    /\ att[a].wire # <<>> \/ (att[a].body = <<>> /\ att[a].chunks = 0)
    /\ \E n \in {Len(att[a].wire)}
                  \cup {k \in {Len(att[a].wire) \div 2} : k >= 1 /\ att[a].chunks = 0} :
         LET w == WriteMemoryCallback(buffers[ResponseSlot(a)],
                                      SubSeq(att[a].wire, 1, n), TRUE)
         IN  /\ buffers' = [buffers EXCEPT ![ResponseSlot(a)] = w.response]
             /\ Step(a, [att[a] EXCEPT
                           !.wire = SubSeq(att[a].wire, n + 1, Len(att[a].wire)),
                           !.chunks = att[a].chunks + 1])
    /\ UNCHANGED <<attempt_vars, keccak, enc, config>>

\* curl_easy_perform returns: CURLE_OK once the body is delivered, an error
\* when the endpoint failed
PairPerform(a) ==
    /\ att[a].pc = "AwaitingRemoteCall"
    /\ \/ /\ att[a].remote = "answer"
          /\ att[a].wire = <<>>
          /\ Step(a, [att[a] EXCEPT !.pc = "ParsingResponse", !.res = "CURLE_OK"])
       \/ /\ att[a].remote = "fail"
          /\ Step(a, [att[a] EXCEPT
                        !.pc = "Done", !.res = "ERR", !.outcome = "TransportFailure",
                        !.call_data = [att[a].call_data EXCEPT !.state = "freed"],
                        !.ret = EntryReturn(att[a].input.variant,
                                            FailResult(att[a].input.variant))])
    /\ UNCHANGED <<attempt_vars, keccak, enc, buffers, config>>

\* the CURLE_OK branch on the attempt's buffer, the release of the buffers and
\* the return to the host; a NULL buffer is read as in the single attempt
PairParse(a) ==
    /\ att[a].pc = "ParsingResponse"
    /\ \E ub \in NullReadOutcomes :
         IF buffers[ResponseSlot(a)].null /\ ub = "crash"
         THEN /\ Step(a, [att[a] EXCEPT !.pc = "Crashed"])
              /\ UNCHANGED buffers
         ELSE LET v == VerifyResponse(att[a].input.variant,
                                      buffers[ResponseSlot(a)].memory,
                                      att[a].auth.response, TRUE)
              IN  /\ Step(a, [att[a] EXCEPT
                                !.pc = "Done", !.outcome = v.outcome,
                                !.result_hex = v.result_hex,
                                !.call_data = [att[a].call_data EXCEPT !.state = "freed"],
                                !.ret = EntryReturn(att[a].input.variant, v.auth_result)])
                  /\ buffers' = [buffers EXCEPT
                                   ![ResponseSlot(a)].freed = ~buffers[ResponseSlot(a)].null]
    /\ UNCHANGED <<attempt_vars, keccak, enc, config>>

PairNext ==
    \E a \in Attempts :
        \/ PairStart(a)
        \/ PairExtract(a)
        \/ PairEncode(a)
        \/ PairIssueCall(a)
        \/ PairWrite(a)
        \/ PairPerform(a)
        \/ PairParse(a)

\* the module parameters are read before the first request is handled
PairInit ==
    /\ AttemptInit
    /\ keccak = NoKeccak
    /\ enc = NoEnc
    /\ att = NoAttempts
    /\ buffers = NoBuffers
    /\ config \in Configs

PairSpec == PairInit /\ [][PairNext]_vars

(* ------------------------------------------------------------------ *)
(* Claims                                                             *)
(* ------------------------------------------------------------------ *)
HasErrorKey(b) == StrStr(b, ErrorKey) # 0
HasMarker(b) == StrStr(b, UserNotFoundMarker) # 0

\* the transport succeeded and the attempt has returned
ParsedAndDone == pc = "Done" /\ res = "CURLE_OK"

\* the extracted result is "0x" followed by at least 64 characters
FullResultExtracted ==
    /\ ~result_hex.null
    /\ Len(result_hex.s) >= 66
    /\ SubSeq(result_hex.s, 1, 2) = Hex0x

\* C1: when the transport succeeded, the body holds no error key and the
\* extracted result is "0x" plus at least 64 characters, the attempt is
\* Authorized exactly when the client response equals the 32 characters after
\* "0x", and is Rejected(ResponseMismatch) otherwise.
C1_AuthorizedIffFirst32Equal ==
    (ParsedAndDone /\ ~HasErrorKey(body) /\ FullResultExtracted)
        => /\ (outcome = "Authorized") <=> (auth.response = SubSeq(result_hex.s, 3, 34))
           /\ outcome \in {"Authorized", "ResponseMismatch"}
           /\ compared

C1_Witness ==
    /\ ParsedAndDone /\ ~HasErrorKey(body) /\ FullResultExtracted
    /\ Len(result_hex.s) > 66
    /\ outcome = "Authorized"

\* C2: an attempt is Authorized only if the extracted result is at least 66
\* characters long; a shorter result authorizes no client response, not even
\* an empty one.
C2_AuthorizedOnlyWithFullResult ==
    outcome = "Authorized" => (~result_hex.null /\ Len(result_hex.s) >= 66)

\* C3: a body that holds the error key anywhere never leads to Authorized,
\* even when it also holds a result whose first 32 hex characters equal the
\* client response: the error key is checked first, nothing is extracted or
\* compared.
C3_ErrorKeyNeverAuthorized ==
    (pc \in {"Done", "Crashed"} /\ res = "CURLE_OK" /\ HasErrorKey(body))
        => /\ pc = "Done"
           /\ outcome # "Authorized"
           /\ ret # 1
           /\ result_hex.null
           /\ ~compared

C3_Witness ==
    /\ ParsedAndDone /\ HasErrorKey(body)
    /\ Len(auth.response) = 32
    /\ StrStr(body, ResultPattern \o Hex0x \o auth.response \o Z32 \o <<34>>) # 0

\* C4: a body with the error key and the marker "User not found" ends in
\* Rejected(UserNotFound), and the value the verification returns for it
\* differs from the value it returns for a response mismatch.
C4_UserNotFoundDistinctCode ==
    (ParsedAndDone /\ HasErrorKey(body) /\ HasMarker(body))
        => /\ outcome = "UserNotFound"
           /\ auth_result # MismatchResult(input.variant)

\* the body holds no result pattern that is followed by a closing quote
NoQuotedResult(b) ==
    LET p == StrStr(b, ResultPattern)
    IN  p = 0 \/ StrChr(b, p + Len(ResultPattern), 34) = 0

\* C5: when the transport succeeded and the body holds neither the error key
\* nor the result pattern followed by a closing quote, the attempt ends as a
\* parse failure: not Authorized, reason RemoteError, nothing compared.
C5_ParseFailureIsRemoteError ==
    (pc \in {"Done", "Crashed"} /\ res = "CURLE_OK" /\ ~HasErrorKey(body) /\ NoQuotedResult(body))
        => /\ pc = "Done"
           /\ outcome = "RemoteError"
           /\ ret = 0 - 1
           /\ ~compared

\* C6: the remote call is issued at most once per attempt; a transport failure
\* or timeout ends the attempt as a transport failure, not Authorized, with no
\* second call.
C6_SingleCallNoRetry ==
    /\ calls <= 1
    /\ res = "ERR" => /\ pc = "Done"
                      /\ outcome = "TransportFailure"
                      /\ ret = 0 - 1
                      /\ calls = 1

C6_Witness == res = "ERR" /\ remote = "silent" /\ pc = "Done"

\* a name="value" pair of field f starts at p: at the head of the raw header
\* or right after a comma
RawPairAt(h, f, p) ==
    /\ p = 1 \/ h[p - 1] = 44
    /\ SubSeq(h, p, p + Len(FieldName(f)) + 1) = FieldName(f) \o <<61, 34>>

\* the raw header carries no usable pair for f: none at all, one whose value
\* is not closed, or one whose value has 256 bytes or more
RawFieldUnusable(h, f) ==
    \A p \in 1..Len(h) :
        RawPairAt(h, f, p)
            => LET v == p + Len(FieldName(f)) + 2
                   q == StrChr(h, v, 34)
               IN  q = 0 \/ q - v >= 256

\* the credentials of the attempt are not valid: the header is absent or
\* unparsable, or a required field is missing or has 256 bytes or more
CredentialsInvalid(i) ==
    IF i.variant = "fixed"
    THEN \/ ~i.msg.parse_headers_ok \/ ~i.msg.has_auth \/ ~i.msg.cred_ok
         \/ \E f \in RequiredFields : ~i.msg.digest[f].s \/ i.msg.digest[f].len >= 256
    ELSE \/ i.param.null
         \/ \E f \in RequiredFields : RawFieldUnusable(i.param.s, f)

\* C7: when the credentials are invalid (a required field missing or
\* oversized, the header absent or unparsable) the attempt goes straight to
\* the failure outcome: no call data is encoded and no remote call is issued.
C7_InvalidCredentialsNoCall ==
    (pc \notin {"Idle", "Extracting"} /\ CredentialsInvalid(input))
        => /\ pc = "Done"
           /\ outcome = "InvalidCredentials"
           /\ call_data.state = "none"
           /\ calls = 0

\* the steps of the protocol, in order, and the terminal outcomes
ProtocolOrder ==
    {<<"Idle", "Extracting">>, <<"Extracting", "Encoding">>,
     <<"Encoding", "AwaitingRemoteCall">>, <<"AwaitingRemoteCall", "ParsingResponse">>}
TerminalOutcomes ==
    {"Authorized", "InvalidCredentials", "EncodingFailure", "CurlInitFailure",
     "PayloadAllocFailure", "TransportFailure", "RemoteError", "UserNotFound",
     "ResponseMismatch"}

\* C8: an attempt moves through Idle, Extracting, Encoding, AwaitingRemoteCall,
\* ParsingResponse in that order only, every way out of that chain is the end
\* of the attempt with exactly one terminal outcome, and Authorized is reached
\* from ParsingResponse only.
C8_OrderedStatesOneOutcome ==
    [][/\ pc' # pc =>
            \/ <<pc, pc'>> \in ProtocolOrder
            \/ /\ pc \in {"Extracting", "Encoding", "AwaitingRemoteCall", "ParsingResponse"}
               /\ pc' = "Done"
               /\ outcome = "none"
               /\ outcome' \in TerminalOutcomes
            \/ pc = "Done" /\ pc' = "Idle"
       /\ pc' = pc => outcome' = outcome
       /\ (outcome' = "Authorized" /\ outcome # "Authorized") => pc = "ParsingResponse"
      ]_vars

\* C9: the entry point returns 1 exactly when the attempt is Authorized and
\* the one failure value -1 for every other outcome.
C9_ReturnHidesReason ==
    pc = "Done"
        => /\ (ret = 1) <=> (outcome = "Authorized")
           /\ outcome # "Authorized" => ret = 0 - 1

C9_Witness ==
    /\ pc = "Done"
    /\ input.variant = "working"
    /\ outcome = "UserNotFound"
    /\ ret = 0 - 1

\* C10: extraction from a structured digest header fails when a required
\* field is missing or has 256 bytes or more, succeeds when all five are
\* present with at most 255 bytes, and then every record field holds exactly
\* the bytes of its source field.
C10_FieldBound ==
    (/\ input.variant = "fixed"
     /\ pc \notin {"Idle", "Extracting"}
     /\ input.msg.parse_headers_ok /\ input.msg.has_auth /\ input.msg.cred_ok)
        => LET d == input.msg.digest
               failed == pc = "Done" /\ outcome = "InvalidCredentials"
           IN  /\ failed <=> (\E f \in RequiredFields : ~d[f].s \/ d[f].len >= 256)
               /\ ~failed => \A f \in RequiredFields :
                                /\ Len(auth[f]) = d[f].len
                                /\ auth[f] \o <<34>> = d[f].buf

C10_Witness ==
    /\ input.variant = "fixed"
    /\ pc = "Encoding"
    /\ \A f \in RequiredFields : input.msg.digest[f].len = 255 /\ Len(auth[f]) = 255

\* the whole of a raw header after percent and plus decoding
DecodedWhole(h) == CStr(UrlDecodeRange(h, 1, Len(h)))

\* the complete value of field f in a raw header: the decoded text between
\* name=" and the next quote, however long
SourceValue(h, f) == extract_field(DecodedWhole(h), FieldName(f), Len(h) + 2).out

\* C11: in the raw-string variant a field value of 256 bytes or more, or a
\* header longer than the decode buffer, is a validation failure: after a
\* successful extraction the header fitted the buffer and every record field
\* equals the complete source value of that field, never a prefix of it.
C11_NoTruncation ==
    (input.variant = "working" /\ ~input.param.null /\ pc = "Encoding")
        => /\ Len(DecodedWhole(input.param.s)) < MAX_AUTH_HEADER_SIZE
           /\ \A f \in RequiredFields : auth[f] = SourceValue(input.param.s, f)

\* the request line of a structured request carries a method; a raw header
\* carries none
MethodSupplied(i) == i.variant = "fixed" /\ i.msg.method.s
SuppliedMethod(i) == SubSeq(i.msg.method.buf, 1, i.msg.method.len)

\* C12: after a successful extraction the record's method is the method the
\* credential source supplies when it supplies one, and "REGISTER" exactly
\* when it supplies none.
C12_MethodFromSource ==
    pc = "Encoding"
        => IF MethodSupplied(input)
           THEN auth.method = SuppliedMethod(input)
           ELSE auth.method = REGISTER

\* the call data is complete and about to be handed to the transport
CallDataReady == pc = "AwaitingRemoteCall" /\ remote = "none"

\* 10db70b5, the selector of getDigestHash(string,string,string,string,string)
GetDigestHashSelector == <<49, 48, 100, 98, 55, 48, 98, 53>>

\* C13: the call data given to the transport is the encoding of the signature
\* getDigestHash(string,string,string,string,string) with the five strings
\* username, realm, method, uri, nonce of the extracted record, in that order;
\* the client response is not one of the encoded arguments.
C13_CallDataOfRecord ==
    CallDataReady
        => LET five == <<auth.username, auth.realm, auth.method, auth.uri, auth.nonce>>
           IN  /\ call_data.state = "live"
               /\ call_data.args = five
               /\ call_data.hex = encode_digest_hash_call(input.variant, five, TRUE).s
               /\ SubSeq(call_data.hex, 1, 8) = GetDigestHashSelector
               /\ (/\ auth.response # <<>>
                   /\ \A k \in 1..5 : StrStr(five[k], auth.response) = 0)
                      => StrStr(call_data.hex, HexOf(auth.response)) = 0

C13_Witness ==
    /\ CallDataReady
    /\ auth.method = INVITE
    /\ auth.response = A32
    /\ Cardinality({auth.username, auth.realm, auth.method, auth.uri, auth.nonce}) = 5

\* len rounded up to a multiple of 32, and 32 for the empty string
PaddedLenOf(len) ==
    IF len = 0 THEN 32 ELSE CHOOSE m \in len..(len + 31) : m % 32 = 0

\* pad_string_data has run for the five arguments
PadsDone == enc.pc \in {"padded", "returned"}

\* C14: for a string of any length the text pad_string_data returns is the
\* bytes of the string in hexadecimal followed by zeros up to paddedLen bytes,
\* that is exactly 2 * padded_length characters, and padded_length is paddedLen.
C14_TailIsPaddedData ==
    PadsDone
        => \A i \in 1..5 :
             LET len == Len(enc.str[i])
             IN  /\ enc.padded[i].padded_len = PaddedLenOf(len)
                 /\ Len(enc.padded[i].s) = 2 * PaddedLenOf(len)
                 /\ enc.padded[i].s = HexOf(enc.str[i]) \o Rep(48, 2 * (PaddedLenOf(len) - len))

\* the value of a 32-byte word given as 64 hex digits, -1 when it is no such
\* word or does not fit
NumOfWord(w) ==
    IF Len(w) # 64 \/ \E p \in 1..64 : ~IsHexDigit(w[p]) \/ (p <= 56 /\ w[p] # 48)
    THEN -1
    ELSE LET d(p) == HexVal(w[p])
         IN  ((((((d(57) * 16 + d(58)) * 16 + d(59)) * 16 + d(60)) * 16 + d(61)) * 16
                + d(62)) * 16 + d(63)) * 16 + d(64)

\* the word at byte offset off of the parameter block, which follows the
\* four bytes of the selector
WordAt(hex, off) ==
    IF off < 0 \/ 8 + 2 * off + 64 > Len(hex) THEN <<>>
    ELSE SubSeq(hex, 8 + 2 * off + 1, 8 + 2 * off + 64)

\* what no string decodes to
Undecodable == <<-1>>

\* the i-th string of the call data: its offset word, at that offset the
\* length word, then that many bytes
DecodeString(hex, i) ==
    LET off == NumOfWord(WordAt(hex, 32 * (i - 1)))
        len == NumOfWord(WordAt(hex, off))
        from == 8 + 2 * (off + 32)
    IN  IF off < 0 \/ len < 0 \/ from + 2 * len > Len(hex)
             \/ \E p \in (from + 1)..(from + 2 * len) : ~IsHexDigit(hex[p])
        THEN Undecodable
        ELSE SubSeq([k \in 1..len |->
                       16 * HexVal(hex[from + 2 * k - 1]) + HexVal(hex[from + 2 * k])],
                    1, len)

DecodeCallData(hex) == [i \in 1..5 |-> DecodeString(hex, i)]

\* the encoder has returned a text
Encoded == enc.pc = "returned" /\ ~enc.call_data.null

\* C15: decoding the call data (skip the selector, read the five offset words,
\* at each offset the length word, then that many bytes) gives back the five
\* strings the encoder was called with.
C15_RoundTrip ==
    Encoded => DecodeCallData(enc.call_data.s) = enc.str

\* C16: the first offset word of the call data is 160, and each further offset
\* exceeds the one before it by 32 plus the padded length of the string before.
C16_OffsetWords ==
    Encoded
        => LET word(i) == NumOfWord(WordAt(enc.call_data.s, 32 * (i - 1)))
           IN  /\ word(1) = 160
               /\ \A i \in 2..5 : word(i) - word(i - 1) = 32 + PaddedLenOf(Len(enc.str[i - 1]))

C16_Witness ==
    /\ Encoded
    /\ enc.variant = "fixed"
    /\ Len(enc.str[1]) = 33
    /\ Len(enc.str[2]) = 0
    /\ Len(enc.str[3]) = 3
    /\ Len(enc.str[4]) = 32

\* where the text written for the i-th string starts in the call data: behind
\* the selector, the five offset words and the texts written before it
TailStart(i) ==
    LET lens == [k \in 1..5 |-> 64 + Len(enc.padded[k].s)]
    IN  8 + 320 + (IF i > 1 THEN lens[1] ELSE 0) + (IF i > 2 THEN lens[2] ELSE 0)
          + (IF i > 3 THEN lens[3] ELSE 0) + (IF i > 4 THEN lens[4] ELSE 0)

\* C17: the padded length of the empty string is 32, and an empty argument
\* contributes to the call data a length word of 0 followed by exactly 32 zero
\* bytes.
C17_EmptyString ==
    Encoded
        => \A i \in 1..5 :
             enc.str[i] = <<>>
               => /\ enc.padded[i].padded_len = 32
                  /\ enc.padded[i].s = Rep(48, 64)
                  /\ SubSeq(enc.call_data.s, TailStart(i) + 1, TailStart(i) + 128)
                       = Rep(48, 128)
                  /\ i < 5 => enc.offset[i + 1] - enc.offset[i] = 64

C17_Witness ==
    /\ Encoded
    /\ enc.str[1] = <<>>
    /\ enc.str[3] = <<>>
    /\ enc.str[5] = <<>>
    /\ enc.str[2] # <<>>

\* keccak256 has returned its 32 bytes
KeccakDone == keccak.pc = "done"

\* the published Keccak-256 digest of the empty message,
\* c5d2460186f7233c927e7db2dcc703c0e500b653ca82273b7bfad8045d85a470
EmptyDigest ==
    <<197, 210, 70, 1, 134, 247, 35, 60, 146, 126, 125, 178, 220, 199, 3, 192, 229, 0, 182, 83, 202, 130, 39, 59, 123, 250, 216, 4, 93, 133, 164, 112>>

\* the published Keccak-256 digest of "abc",
\* 4e03657aea45a94fc7d47ba826c8d667c0d1e6e33a64a036ec44f58fa12d6c45
AbcDigest ==
    <<78, 3, 101, 122, 234, 69, 169, 79, 199, 212, 123, 168, 38, 200, 214, 103, 192, 209, 230, 227, 58, 100, 160, 54, 236, 68, 245, 143, 161, 45, 108, 69>>

\* C18: keccak256 of the empty message and of "abc" are the published
\* Keccak-256 digests of these messages.
C18_PublishedDigests ==
    KeccakDone
        => /\ keccak.input = <<>> => keccak.output = EmptyDigest
           /\ keccak.input = Abc => keccak.output = AbcDigest

C18_Witness ==
    /\ KeccakDone
    /\ keccak.input = Abc
    /\ keccak.perms = 1
    /\ Len(keccak.output) = 32

\* the selector the encoder starts its text with is what get_function_selector
\* makes of the keccak256 of the signature
SelectorIsHashOfSignature ==
    (KeccakDone /\ keccak.input = Signature)
        => get_function_selector(keccak.output) = SignatureSelector

\* the remote result attempt a read from its response
ResultRead(a) == att[a].result_hex.s

\* attempt a was decided on a remote result that starts with 0x and has at
\* least 64 further characters
DecidedOnFullResult(a) ==
    /\ att[a].pc = "Done"
    /\ att[a].res = "CURLE_OK"
    /\ ~att[a].result_hex.null
    /\ Len(ResultRead(a)) >= 66
    /\ SubSeq(ResultRead(a), 1, 2) = Hex0x

\* C19: two attempts with the same credentials whose remote results both start
\* with 0x, both have at least 64 further characters and agree on the first 32
\* of them reach the same decision, whatever the remaining characters are.
C19_OnlyFirst32Matter ==
    (/\ DecidedOnFullResult(1)
     /\ DecidedOnFullResult(2)
     /\ att[1].input = att[2].input
     /\ SubSeq(ResultRead(1), 3, 34) = SubSeq(ResultRead(2), 3, 34))
        => /\ att[1].outcome = att[2].outcome
           /\ att[1].ret = att[2].ret

C19_Witness ==
    /\ DecidedOnFullResult(1)
    /\ DecidedOnFullResult(2)
    /\ att[1].input = att[2].input
    /\ SubSeq(ResultRead(1), 3, 34) = SubSeq(ResultRead(2), 3, 34)
    /\ SubSeq(ResultRead(1), 35, 66) # SubSeq(ResultRead(2), 35, 66)
    /\ att[1].outcome = "Authorized"

\* the decision of an attempt that runs alone once its record is extracted,
\* given what the endpoint does: the transport result, then the CURLE_OK branch
\* on the whole body
AloneVerification(v, record, r, b) ==
    LET d == VerifyResponse(v, b, record.response, TRUE)
    IN  IF r = "fail"
        THEN [outcome |-> "TransportFailure", ret |-> EntryReturn(v, FailResult(v))]
        ELSE [outcome |-> d.outcome, ret |-> EntryReturn(v, d.auth_result)]

\* the decision of an attempt that runs alone, given its credentials and what
\* the endpoint does
AloneDecision(i, r, b) ==
    LET e == Extraction(i)
    IN  IF ~e.ok
        THEN [outcome |-> "InvalidCredentials", ret |-> 0 - 1]
        ELSE AloneVerification(i.variant, e.auth, r, b)

\* the single attempt ends as AloneDecision says whenever no allocation fails
\* on its way
AloneMatchesSingleAttempt ==
    /\ (pc = "Done" /\ outcome \in {"Authorized", "ResponseMismatch", "UserNotFound"})
          => outcome = AloneDecision(input, "answer", body).outcome
    /\ (pc = "Done" /\ res = "CURLE_OK")
          => \/ outcome = "RemoteError"
             \/ /\ outcome = AloneDecision(input, "answer", body).outcome
                /\ ret = AloneDecision(input, "answer", body).ret
    /\ (pc = "Done" /\ outcome = "InvalidCredentials") => ~Extraction(input).ok

\* what a step of two attempts running side by side must respect: at most one
\* attempt moves; the buffer of an attempt that does not move is left alone;
\* the record is the one the attempt's own credentials give and stays as it
\* is; the attempt that issues its call sends its own call data to the
\* configured endpoint and contract; the attempt whose transfer ends has its
\* whole body in its buffer; the attempt that ends has the decision it reaches
\* alone
IndependentStep ==
    /\ config' = config
    /\ \A a, b \in Attempts : (att'[a] # att[a] /\ att'[b] # att[b]) => a = b
    /\ \A a \in Attempts :
         /\ att'[a] = att[a] => buffers'[a] = buffers[a]
         /\ att[a].pc = "Extracting"
              => \/ att'[a] = att[a]
                 \/ LET e == Extraction(att[a].input)
                    IN  /\ att'[a].auth = e.auth
                        /\ att'[a].pc = IF e.ok THEN "Encoding" ELSE "Done"
                        /\ ~e.ok => att'[a].outcome = "InvalidCredentials" /\ att'[a].ret = 0 - 1
         /\ att[a].pc \notin {"Idle", "Extracting"}
              => att'[a].auth = att[a].auth /\ att'[a].input = att[a].input
         /\ (att[a].pc # "ParsingResponse" /\ att'[a].pc = "ParsingResponse")
              => buffers'[a].memory = att'[a].body /\ ~buffers'[a].freed
         /\ (att[a].remote = "none" /\ att'[a].remote # "none")
              => /\ att'[a].url = EndpointOf(att'[a].input.variant, config)
                 /\ att'[a].to = ContractOf(att'[a].input.variant, config)
                 /\ att'[a].call_data.args = CallArgs(att'[a].auth)
         /\ (att[a].pc \notin {"Extracting", "Done"} /\ att'[a].pc = "Done")
              => LET alone == AloneVerification(att'[a].input.variant, att'[a].auth,
                                                att'[a].remote, att'[a].body)
                 IN  att'[a].outcome = alone.outcome /\ att'[a].ret = alone.ret

\* C20: under every interleaving of the steps of two attempts each attempt
\* reaches the decision it reaches when run alone with the same credentials and
\* remote response, and no step of an attempt writes the configuration or a
\* buffer of the other attempt.
C20_NoSharedState == [][IndependentStep]_vars

C20_Witness ==
    /\ att[1].pc = "Done"
    /\ att[2].pc = "Done"
    /\ att[1].chunks = 2
    /\ att[2].chunks = 2
    /\ att[1].input.variant # att[2].input.variant
    /\ att[1].body # att[2].body
    /\ att[1].outcome = "Authorized"
    /\ att[2].outcome = "ResponseMismatch"
    /\ buffers[1].memory = att[1].body
    /\ buffers[2].memory = att[2].body

\* the remote call is in flight and the endpoint never answers
WaitingOnSilentEndpoint == pc = "AwaitingRemoteCall" /\ remote = "silent"

\* C21: when the remote endpoint never answers, the call in flight is given up
\* on timeout and the attempt ends as a transport failure: an attempt that
\* waits on a silent endpoint can always take the step that ends it so.
C21_SilentEndpointTimesOut ==
    WaitingOnSilentEndpoint => ENABLED PerformFail

\* the attempt has returned after curl_easy_perform was entered
EndedAfterCall == pc = "Done" /\ calls > 0

\* the response buffer holds no allocation any more
ResponseReleased == response.null \/ response.freed

\* the payload is released: freed where it was allocated, gone with the frame
\* of the function where it is an array of it
PayloadReleased == IF input.variant = "fixed" THEN payload = "freed" ELSE payload = "live"

\* C22: on every path by which an attempt ends after the remote call was
\* issued, a transport failure after a part of the body was received included,
\* the response buffer, the call data and the payload are released when the
\* attempt returns.
C22_BuffersReleased ==
    EndedAfterCall
        => /\ ResponseReleased
           /\ call_data.state = "freed"
           /\ PayloadReleased

\* C23: the encoder is the same function in every variant: what pad_string_data
\* returns for each argument, and what encode_digest_hash_call returns for the
\* five, is what each of the three source files returns for them.
C23_SameEncoderEverywhere ==
    /\ PadsDone
         => \A v \in EncVariants, i \in 1..5 :
              pad_string_data(v, enc.str[i]) = enc.padded[i]
    /\ Encoded
         => \A v \in EncVariants :
              encode_digest_hash_call(v, enc.str, TRUE) = enc.call_data

\* a ^ b for two bytes
ByteXor(a, b) ==
    LET bit(k) == ((a \div Pow2(k)) + (b \div Pow2(k))) % 2
    IN  bit(0) + 2 * bit(1) + 4 * bit(2) + 8 * bit(3) + 16 * bit(4) + 32 * bit(5)
        + 64 * bit(6) + 128 * bit(7)

\* byte i (from 0) of the k-th full block (from 0) of the message m
FullBlockByte(m, k, i) == IF i < 136 THEN m[136 * k + i + 1] ELSE 0

\* byte i (from 0) of the final block of the message m: what is left of m, 0x01
\* behind it and 0x80 in the last byte of the block
FinalBlockByte(m, i) ==
    LET n == Len(m)
        r == n % 136
        data == IF i < r THEN m[136 * (n \div 136) + i + 1] ELSE 0
    IN  ByteXor(ByteXor(data, IF i = r THEN 1 ELSE 0), IF i = 135 THEN 128 ELSE 0)

\* a block is xored into the state and the permutation is entered
BlockAbsorbed(kind) ==
    keccak.pc = "absorb" /\ keccak'.pc = "theta" /\ keccak'.resume = kind

\* what the steps of keccak256 do to the state bytes and the count of
\* permutations, for a message of n bytes
AbsorbAndPadStep ==
    LET m == keccak.input
        n == Len(keccak.input)
    IN  /\ BlockAbsorbed("absorb")
             => /\ keccak.perms < n \div 136
                /\ \A i \in 0..199 :
                     StateByte(keccak'.state, i)
                       = ByteXor(StateByte(keccak.state, i), FullBlockByte(m, keccak.perms, i))
        /\ BlockAbsorbed("final")
             => /\ keccak.perms = n \div 136
                /\ \A i \in 0..199 :
                     StateByte(keccak'.state, i)
                       = ByteXor(StateByte(keccak.state, i), FinalBlockByte(m, i))
        /\ (keccak.pc # "done" /\ keccak'.pc = "done")
             => keccak'.perms = (n \div 136) + 1

\* C24: for an input of n bytes keccak256 absorbs floor(n / 136) full blocks
\* and then one final block in which 0x01 is xored into the state byte at
\* n mod 136 and 0x80 into the byte at 135 (0x81 when both are the same byte,
\* padding only when n is a multiple of 136), and applies the permutation
\* floor(n / 136) + 1 times.
C24_AbsorbAndPad == [][AbsorbAndPadStep]_vars

\* the final block of a message of 135 bytes has just been xored in
C24_Witness ==
    /\ keccak.pc = "theta"
    /\ keccak.round = 0
    /\ keccak.resume = "final"
    /\ Len(keccak.input) = 135
    /\ StateByte(keccak.state, 135) = 129
    /\ StateByte(keccak.state, 134) = 97

\* the whole Rho and Pi loop from iteration i on
RECURSIVE RhoPiFrom(_, _)
RhoPiFrom(p, i) == IF i = 24 THEN p ELSE RhoPiFrom(RhoPiIter(p, i), i + 1)

\* the lane whose value the k-th iteration (from 1) rotates: lane 1 first, then
\* the lane written the iteration before
PredLane(k) == IF k = 1 THEN 1 ELSE pi_offsets[k - 1]

\* the tables: pi_offsets names every lane 1..24 once and ends at lane 1, where
\* the walk started; every rotation amount lies in 1..63
TablesFormOneCycle ==
    /\ Len(pi_offsets) = 24 /\ Len(rho_offsets) = 24
    /\ {pi_offsets[k] : k \in 1..24} = 1..24
    /\ pi_offsets[24] = 1
    /\ \A k \in 1..24 : rho_offsets[k] \in 1..63

\* the Rho and Pi pass on the state s: lane 0 stays, the lane written by the
\* k-th iteration gets the value its predecessor had before the pass, rotated
WholePassOk(s) ==
    LET post == RhoPiFrom([state |-> s, current |-> s[2]], 0).state
    IN  /\ post[1] = s[1]
        /\ \A k \in 1..24 :
             post[pi_offsets[k] + 1] = rotl64(s[PredLane(k) + 1], rho_offsets[k])

\* what the steps of one round do in the Rho and Pi pass
RhoPiPassStep ==
    /\ TablesFormOneCycle
    /\ (keccak.pc = "theta" /\ keccak'.pc = "rhopi") => WholePassOk(keccak'.state)
    /\ (keccak.pc = "rhopi" /\ keccak'.pc \in {"rhopi", "chi"})
         => LET k == keccak.i + 1
                written == {pi_offsets[h] : h \in 1..keccak.i}
            IN  /\ pi_offsets[k] \notin written \cup {0}
                /\ k = 1 => keccak.current = keccak.state[2]
                /\ keccak'.state[pi_offsets[k] + 1] = rotl64(keccak.current, rho_offsets[k])
                /\ \A n \in 0..24 :
                     n # pi_offsets[k] => keccak'.state[n + 1] = keccak.state[n + 1]
                /\ keccak'.pc = "chi" <=> k = 24

\* C25: in every round the Rho and Pi pass leaves lane 0 unchanged and writes
\* each of the lanes 1..24 exactly once, in the order of pi_offsets, which is
\* one cycle from lane 1 back to lane 1; each written lane receives the value
\* its predecessor in the cycle had before the pass, rotated left by the
\* matching rho offset, and every rotation amount lies in 1..63.
C25_RhoPiOneCycle == [][RhoPiPassStep]_vars

\* the pass of the last round of a call has just ended
C25_Witness ==
    /\ keccak.pc = "chi"
    /\ keccak.round = 23
    /\ keccak.i = 24
    /\ keccak.input = Abc

\* the write callback is invoked in this step
CallbackInvoked == chunks' = chunks + 1

\* the chunk handed over in this step was accepted: the transport goes on
\* behind it
ChunkAccepted == CallbackInvoked /\ ~write_error'

\* the bytes of the chunk accepted in this step
AcceptedChunk == SubSeq(wire, 1, Len(wire) - Len(wire'))

\* what one step does to the response buffer: an accepted chunk is appended
\* behind the bytes held so far, so that the buffer is all accepted chunks in
\* the order of arrival; a refused one changes nothing.  A chunk of no bytes
\* whose reallocation fails is returned as 0 = size * nmemb: the transport goes
\* on and the buffer is as before.
BufferStep ==
    /\ ChunkAccepted
         => /\ ~response'.null \/ (AcceptedChunk = <<>> /\ response' = response)
            /\ response'.memory = response.memory \o AcceptedChunk
            /\ response'.size = response.size + Len(AcceptedChunk)
            /\ Len(response'.memory) = response'.size
            /\ response'.memory \o wire' = body
    /\ (CallbackInvoked /\ write_error')
         => /\ response' = response
            /\ wire' = wire

\* C26: after any sequence of invocations of the write callback the buffer
\* holds the accepted chunks one after the other in the order of arrival, size
\* is the sum of their lengths and the terminating NUL sits at index size; an
\* invocation whose reallocation fails returns 0 and leaves contents and size
\* as they were.
C26_BufferIsConcatenation == [][BufferStep]_vars

\* a body has arrived in as many chunks as the transport may use
C26_Witness ==
    /\ pc = "AwaitingRemoteCall"
    /\ chunks = MaxChunks
    /\ ~write_error
    /\ wire = <<>>
    /\ response.size > 0
    /\ response.memory = body

\* the transfer has ended with CURLE_OK and the body is about to be read
ParsingStarts == pc = "ParsingResponse" /\ res = "CURLE_OK"

\* C27: on transport success with any response body, an empty body for which
\* the write callback was never invoked included, the response buffer is a
\* valid NUL-terminated text when parsing starts, and the attempt ends in a
\* terminal decision, which for an empty body is not Authorized.
C27_BufferValidWhenParsed ==
    /\ ParsingStarts => ~response.null
    /\ pc # "Crashed"
    /\ (pc = "Done" /\ res = "CURLE_OK" /\ body = <<>>) => outcome # "Authorized"

\* the raw header as the lookup sees it, after percent and plus decoding
LookedUpHeader(i) == CStr(url_decode(auth_header_input(i.param), MAX_AUTH_HEADER_SIZE))

\* the places of h where a pair named exactly f starts: the name and =" stand
\* at the start of the header or behind the comma (and blanks) that ends the
\* pair before, outside every value
ExactPairStarts(h, f) ==
    LET pat == FieldName(f) \o <<61, 34>>
        quotes(p) == Cardinality({q \in 1..(p - 1) : h[q] = 34})
    IN  {p \in 1..(Len(h) - Len(pat) + 1) :
           /\ SubSeq(h, p, p + Len(pat) - 1) = pat
           /\ p = 1 \/ h[p - 1] \in {44, 32}
           /\ quotes(p) % 2 = 0}

\* no pair of that name
NoPair == <<0>>

\* the value of the pair named exactly f, cut to the size of a record field
ExactPairValue(h, f) ==
    LET starts == ExactPairStarts(h, f)
        vstart == SetMin(starts) + Len(FieldName(f)) + 2
        end == StrChr(h, vstart, 34)
    IN  IF starts = {} THEN NoPair
        ELSE IF end = 0 THEN NoPair
        ELSE Take(SubSeq(h, vstart, end - 1), MAX_FIELD_SIZE - 1)

\* C28: in the raw-string variant the lookup of a field returns the value of
\* the pair whose name is exactly that field: never the value of a pair whose
\* name only ends with it (cnonce for nonce), whatever the order of the pairs.
C28_ExactNameLookup ==
    (input.variant = "working" /\ pc = "Encoding")
        => \A f \in RequiredFields : auth[f] = ExactPairValue(LookedUpHeader(input), f)

\* the raw-string entry point was called without a credential source
NoSourceGiven == input.variant = "working" /\ input.param.null /\ pc # "Idle"

\* C29: in the raw-string variant an attempt that is given no credential
\* source ends as an extraction failure without issuing a remote call.
C29_NoSourceNoCall ==
    NoSourceGiven
        => /\ pc \in {"Extracting", "Done"}
           /\ calls = 0
           /\ call_data.state = "none"
           /\ pc = "Done" => outcome = "InvalidCredentials"
====
